---- MODULE Spec2Model ----
(***************************************************************************)
(* Lead outreach front-end: the email-content codec of the preview modal   *)
(* (EmailPreviewModal) and the lead lifecycle of the History view.         *)
(*                                                                         *)
(* Strings are sequences of tokens.  A token is one lexeme of the text:    *)
(* a label word ("subject", "Subject Line", "body", "Email Body", matched  *)
(* case-insensitively by the modal's regular expressions), a colon, a      *)
(* blank, a line break, an ordinary word, or one JSON punctuation mark.    *)
(***************************************************************************)
EXTENDS Integers, Sequences, FiniteSets, TLC

NL == "\n"
SP == " "
COLON == ":"
QUOTE == "\""
BACKSLASH == "\\"
LETTER_N == "n"
LBRACE == "{"
RBRACE == "}"
LBRACK == "["
RBRACK == "]"
COMMA == ","
NULL_TOK == "null"

\* \s of the regular expressions, and JSON's insignificant white space
WS == {SP, NL}

\* the property names the code reads
K_SUBJECT_LINE == <<"Subject Line">>
K_EMAIL_BODY == <<"Email Body">>
K_SUBJECT == <<"subject">>
K_BODY == <<"body">>
K_OUTPUT == <<"output">>

\* (?:subject|SUBJECT|Subject Line) and (?:body|BODY|Email Body), flag i
SubjectLabels == {"subject", "Subject Line"}
BodyLabels == {"body", "Email Body"}

Min(S) == CHOOSE x \in S : \A y \in S : x <= y
Max(S) == CHOOSE x \in S : \A y \in S : x >= y

\* the least index in hits, or Len(s) + 1 when there is none
FirstOr(hits, s) == IF hits = {} THEN Len(s) + 1 ELSE Min(hits)

\* String.prototype.trim
Trim(s) ==
  LET keep == {i \in 1..Len(s) : s[i] \notin WS}
  IN IF keep = {} THEN <<>> ELSE SubSeq(s, Min(keep), Max(keep))

(***************************************************************************)
(* JavaScript values as JSON.parse yields them.  k is the kind, v the      *)
(* content: the tokens of a string, the members of an object in insertion  *)
(* order, the elements of an array.                                        *)
(***************************************************************************)
JStr(toks) == [k |-> "str", v |-> toks]
JNull == [k |-> "null", v |-> <<>>]
JUndefined == [k |-> "undefined", v |-> <<>>]
JObj(members) == [k |-> "obj", v |-> members]
JArr(elems) == [k |-> "arr", v |-> elems]
Member(key, val) == [key |-> key, val |-> val]

\* ToBoolean: "", null and undefined are falsy; objects and arrays are truthy
Truthy(x) ==
  CASE x.k = "str" -> x.v # <<>>
    [] x.k \in {"null", "undefined"} -> FALSE
    [] OTHER -> TRUE

\* x[key] for a value that is neither null nor undefined
Get(x, key) ==
  IF x.k = "obj" /\ \E i \in 1..Len(x.v) : x.v[i].key = key
  THEN x.v[Max({i \in 1..Len(x.v) : x.v[i].key = key})].val
  ELSE JUndefined

IsArray(x) == x.k = "arr"

\* x[0]
First(x) == IF Len(x.v) > 0 THEN x.v[1] ELSE JUndefined

\* a property read of null or undefined throws a TypeError
Nullish(x) == x.k \in {"null", "undefined"}

(***************************************************************************)
(* JSON.stringify: compact, strings quoted with line breaks and quotes     *)
(* escaped, members in insertion order.                                    *)
(***************************************************************************)
\* a line break becomes \n, a quote \" and a backslash \\
EscapeTok(t) ==
  IF t = NL THEN <<BACKSLASH, LETTER_N>>
  ELSE IF t \in {QUOTE, BACKSLASH} THEN <<BACKSLASH, t>>
  ELSE <<t>>

RECURSIVE EscapeToks(_, _)
EscapeToks(toks, i) ==
  IF i > Len(toks) THEN <<>> ELSE EscapeTok(toks[i]) \o EscapeToks(toks, i + 1)

Quoted(toks) == <<QUOTE>> \o EscapeToks(toks, 1) \o <<QUOTE>>

RECURSIVE JSONStringify(_)
RECURSIVE StringifyElems(_, _)
RECURSIVE StringifyMembers(_, _)

StringifyElems(elems, i) ==
  IF i > Len(elems) THEN <<>>
  ELSE (IF i > 1 THEN <<COMMA>> ELSE <<>>)
       \o JSONStringify(elems[i]) \o StringifyElems(elems, i + 1)

StringifyMembers(members, i) ==
  IF i > Len(members) THEN <<>>
  ELSE (IF i > 1 THEN <<COMMA>> ELSE <<>>)
       \o Quoted(members[i].key) \o <<COLON>> \o JSONStringify(members[i].val)
       \o StringifyMembers(members, i + 1)

JSONStringify(x) ==
  CASE x.k = "str" -> Quoted(x.v)
    [] x.k = "arr" -> <<LBRACK>> \o StringifyElems(x.v, 1) \o <<RBRACK>>
    [] x.k = "obj" -> <<LBRACE>> \o StringifyMembers(x.v, 1) \o <<RBRACE>>
    [] OTHER -> <<NULL_TOK>>

(***************************************************************************)
(* JSON.parse: a recursive-descent parser over the tokens.  A result is    *)
(* [ok, val, next]; ok = FALSE is the SyntaxError JSON.parse throws.       *)
(***************************************************************************)
ParseFail == [ok |-> FALSE, val |-> JNull, next |-> 0]
Parsed(val, next) == [ok |-> TRUE, val |-> val, next |-> next]

SkipWs(s, i) == FirstOr({k \in i..Len(s) : s[k] \notin WS}, s)

\* the characters of a string literal from s[i] to the closing quote; a raw
\* line break and an escape other than \n, \" and \\ are syntax errors
RECURSIVE ScanString(_, _, _)
ScanString(s, i, acc) ==
  IF i > Len(s) \/ s[i] = NL THEN ParseFail
  ELSE IF s[i] = QUOTE THEN Parsed(acc, i + 1)
  ELSE IF s[i] # BACKSLASH THEN ScanString(s, i + 1, Append(acc, s[i]))
  ELSE IF i + 1 > Len(s) THEN ParseFail
  ELSE IF s[i + 1] = LETTER_N THEN ScanString(s, i + 2, Append(acc, NL))
  ELSE IF s[i + 1] \in {QUOTE, BACKSLASH} THEN ScanString(s, i + 2, Append(acc, s[i + 1]))
  ELSE ParseFail

\* a string literal that opens at s[i]
ParseString(s, i) ==
  IF i > Len(s) \/ s[i] # QUOTE THEN ParseFail ELSE ScanString(s, i + 1, <<>>)

RECURSIVE ParseValue(_, _)
RECURSIVE ParseElems(_, _, _)
RECURSIVE ParseMembers(_, _, _)

\* the elements of an array after "[" or ","; acc holds those read so far
ParseElems(s, i, acc) ==
  LET e == ParseValue(s, i)
      j == SkipWs(s, e.next)
  IN IF ~e.ok \/ j > Len(s) THEN ParseFail
     ELSE IF s[j] = RBRACK THEN Parsed(JArr(Append(acc, e.val)), j + 1)
     ELSE IF s[j] = COMMA THEN ParseElems(s, j + 1, Append(acc, e.val))
     ELSE ParseFail

\* the members of an object after "{" or ","
ParseMembers(s, i, acc) ==
  LET key == ParseString(s, SkipWs(s, i))
      c == SkipWs(s, key.next)
  IN IF ~key.ok \/ c > Len(s) \/ s[c] # COLON THEN ParseFail
     ELSE LET e == ParseValue(s, c + 1)
              j == SkipWs(s, e.next)
              m == Append(acc, Member(key.val, e.val))
          IN IF ~e.ok \/ j > Len(s) THEN ParseFail
             ELSE IF s[j] = RBRACE THEN Parsed(JObj(m), j + 1)
             ELSE IF s[j] = COMMA THEN ParseMembers(s, j + 1, m)
             ELSE ParseFail

ParseValue(s, i0) ==
  LET i == SkipWs(s, i0)
  IN IF i > Len(s) THEN ParseFail
     ELSE IF s[i] = NULL_TOK THEN Parsed(JNull, i + 1)
     ELSE IF s[i] = QUOTE
       THEN LET r == ParseString(s, i)
            IN IF r.ok THEN Parsed(JStr(r.val), r.next) ELSE ParseFail
     ELSE IF s[i] = LBRACK
       THEN LET j == SkipWs(s, i + 1)
            IN IF j <= Len(s) /\ s[j] = RBRACK THEN Parsed(JArr(<<>>), j + 1)
               ELSE ParseElems(s, i + 1, <<>>)
     ELSE IF s[i] = LBRACE
       THEN LET j == SkipWs(s, i + 1)
            IN IF j <= Len(s) /\ s[j] = RBRACE THEN Parsed(JObj(<<>>), j + 1)
               ELSE ParseMembers(s, i + 1, <<>>)
     ELSE ParseFail

JSONParse(s) ==
  LET r == ParseValue(s, 1)
  IN IF r.ok /\ SkipWs(s, r.next) > Len(s) THEN r ELSE ParseFail

(***************************************************************************)
(* The two regular expressions of the text fallback.  A match is           *)
(* [found, cap, end]: cap is capture group 1 and end the index after the   *)
(* whole match.                                                            *)
(***************************************************************************)
NoMatch == [found |-> FALSE, cap |-> <<>>, end |-> 0]

\* /(?:subject|SUBJECT|Subject Line):\s*(.+?)(?:\n|$)/i tried at index i.
\* \s* is greedy and (.+?) needs one character that is no line break: when
\* the white space after the colon runs to the end of the text, \s* gives
\* characters back until (.+?) can take a blank.
SubjectMatchAt(s, i) ==
  LET j == SkipWs(s, i + 2)
      blanks == {p \in (i + 2)..Len(s) : s[p] = SP}
      start == IF j <= Len(s) THEN j ELSE IF blanks = {} THEN 0 ELSE Max(blanks)
      stop == FirstOr({k \in (start + 1)..Len(s) : s[k] = NL}, s)
  IN IF start = 0 THEN NoMatch
     ELSE [found |-> TRUE, cap |-> SubSeq(s, start, stop - 1),
           end |-> IF stop <= Len(s) THEN stop + 1 ELSE stop]

\* emailContent.match(subject pattern): the leftmost index that matches
SubjectMatch(s) ==
  LET at == {i \in 1..(Len(s) - 1) :
               s[i] \in SubjectLabels /\ s[i + 1] = COLON /\ SubjectMatchAt(s, i).found}
  IN IF at = {} THEN NoMatch ELSE SubjectMatchAt(s, Min(at))

\* /(?:body|BODY|Email Body):\s*([\s\S]*?)(?:\n\n|$)/i: the capture runs
\* from the first character after the white space to the first blank line
\* or the end of the text
BodyMatch(s) ==
  LET at == {i \in 1..(Len(s) - 1) : s[i] \in BodyLabels /\ s[i + 1] = COLON}
  IN IF at = {} THEN NoMatch
     ELSE LET j == SkipWs(s, Min(at) + 2)
              stop == FirstOr({k \in j..(Len(s) - 1) : s[k] = NL /\ s[k + 1] = NL}, s)
          IN [found |-> TRUE, cap |-> SubSeq(s, j, stop - 1),
              end |-> IF stop <= Len(s) THEN stop + 2 ELSE stop]

\* `Regarding ${lead?.company || 'Partnership Opportunity'}`
DefaultSubject(company) ==
  <<"Regarding", SP>> \o (IF company # <<>> THEN company ELSE <<"Partnership Opportunity">>)

Pair(subject, body) == [subject |-> subject, body |-> body]

(***************************************************************************)
(* The decode effect of EmailPreviewModal.  subject and body are the       *)
(* modal's state before the effect runs; the result is its state after.    *)
(***************************************************************************)
\* the JSON shapes, tried in order; matched = FALSE also stands for the
\* SyntaxError and the TypeError the catch block swallows
\* kinds keeps what the two values handed to setSubject and setBody are:
\* the fields of a shape are tested for truth only
StringKinds == <<"str", "str">>
NoShape == [matched |-> FALSE, subject |-> <<>>, body |-> <<>>, kinds |-> StringKinds]
Shape(subject, body) ==
  [matched |-> TRUE, subject |-> subject.v, body |-> body.v, kinds |-> <<subject.k, body.k>>]

BothTruthy(o, ks, kb) == Truthy(Get(o, ks)) /\ Truthy(Get(o, kb))

FromMembers(o, ks, kb) ==
  IF BothTruthy(o, ks, kb) THEN Shape(Get(o, ks), Get(o, kb)) ELSE NoShape

\* the first of two attempts that matched: each shape ends in a return
FirstMatch(m1, m2) == IF m1.matched THEN m1 ELSE m2

\* parsed[0].output throws for a first element that is null
\* (Array.isArray(parsed) && parsed.length > 0 && parsed[0].output)
ReadsNull(parsed, first) ==
  IF IsArray(parsed) THEN Len(parsed.v) > 0 /\ Nullish(first) ELSE Nullish(parsed)

\* the modal's earlier decode effect: the same chain without the bare list
DecodeParsedEarlier(parsed, first, output) ==
  IF ReadsNull(parsed, first) THEN NoShape
  ELSE FirstMatch(
         IF IsArray(parsed) /\ Len(parsed.v) > 0 /\ Truthy(output)
           THEN FromMembers(output, K_SUBJECT_LINE, K_EMAIL_BODY) ELSE NoShape,
       FirstMatch(FromMembers(parsed, K_SUBJECT_LINE, K_EMAIL_BODY),
                  FromMembers(parsed, K_SUBJECT, K_BODY)))

DecodeParsed(parsed, first, output) ==
  IF ReadsNull(parsed, first) THEN NoShape
  ELSE FirstMatch(
         IF IsArray(parsed) /\ Len(parsed.v) > 0 /\ Truthy(output)
           THEN FromMembers(output, K_SUBJECT_LINE, K_EMAIL_BODY) ELSE NoShape,
       FirstMatch(FromMembers(parsed, K_SUBJECT_LINE, K_EMAIL_BODY),
       FirstMatch(FromMembers(parsed, K_SUBJECT, K_BODY),
         IF IsArray(parsed) /\ Len(parsed.v) > 0
           THEN FromMembers(first, K_SUBJECT_LINE, K_EMAIL_BODY) ELSE NoShape)))

DecodeValue(parsed, first) == DecodeParsed(parsed, first, Get(first, K_OUTPUT))

DecodeResult(r) == IF r.ok THEN DecodeValue(r.val, First(r.val)) ELSE NoShape

DecodeJson(emailContent) == DecodeResult(JSONParse(emailContent))

\* "Parse text format": setSubject only when the subject pattern matched
DecodeText(emailContent, company, subject, body) ==
  LET subjectMatch == SubjectMatch(emailContent)
      bodyMatch == BodyMatch(emailContent)
  IN IF bodyMatch.found
       THEN Pair(IF subjectMatch.found THEN Trim(subjectMatch.cap) ELSE subject,
                 Trim(bodyMatch.cap))
     ELSE IF subjectMatch.found
       THEN Pair(Trim(subjectMatch.cap),
                 Trim(SubSeq(emailContent, subjectMatch.end, Len(emailContent))))
     ELSE Pair(DefaultSubject(company), emailContent)

DecodeOr(j, emailContent, company, subject, body) ==
  IF j.matched THEN Pair(j.subject, j.body)
  ELSE DecodeText(emailContent, company, subject, body)

\* the effect without its else branch: an empty payload leaves the fields
DecodeWithoutElse(emailContent, company, subject, body) ==
  IF emailContent = <<>> THEN Pair(subject, body)
  ELSE DecodeOr(DecodeJson(emailContent), emailContent, company, subject, body)

Decode(emailContent, company, subject, body) ==
  IF emailContent = <<>> THEN Pair(<<>>, <<>>)
  ELSE DecodeOr(DecodeJson(emailContent), emailContent, company, subject, body)

\* the kinds of the subject and the body the effect leaves: the text
\* patterns, the default subject and the empty payload give strings
KindsOf(j) == IF j.matched THEN j.kinds ELSE StringKinds

DecodedKinds(emailContent) ==
  IF emailContent = <<>> THEN StringKinds ELSE KindsOf(DecodeJson(emailContent))

(***************************************************************************)
(* The helpers of the History table's Send: extractSubjectFromEmail and    *)
(* extractBodyFromEmail, each with its own JSON.parse and catch block.     *)
(***************************************************************************)
\* x || '' for a value that is a string, null or undefined
OrEmpty(x) == IF Truthy(x) THEN x.v ELSE <<>>

\* JSON.parse threw, or a property read of null did: the catch block runs
ExtractThrows(r) == ~r.ok \/ ReadsNull(r.val, First(r.val))

\* the try block of extractSubjectFromEmail; <<>> is the final return ''
ExtractSubjectParsed(parsed, output) ==
  IF IsArray(parsed) /\ Len(parsed.v) > 0 /\ Truthy(output)
    THEN OrEmpty(Get(output, K_SUBJECT_LINE))
  ELSE IF Truthy(Get(parsed, K_SUBJECT_LINE)) THEN Get(parsed, K_SUBJECT_LINE).v
  ELSE IF Truthy(Get(parsed, K_SUBJECT)) THEN Get(parsed, K_SUBJECT).v
  ELSE <<>>

\* its catch block
ExtractSubjectText(m) == IF m.found THEN Trim(m.cap) ELSE <<>>

ExtractSubjectResult(r, emailContent) ==
  IF ExtractThrows(r) THEN ExtractSubjectText(SubjectMatch(emailContent))
  ELSE ExtractSubjectParsed(r.val, Get(First(r.val), K_OUTPUT))

extractSubjectFromEmail(emailContent) ==
  IF emailContent = <<>> THEN <<>>
  ELSE ExtractSubjectResult(JSONParse(emailContent), emailContent)

\* the try block of extractBodyFromEmail, and the final return emailContent
ExtractBodyParsed(parsed, output, emailContent) ==
  IF IsArray(parsed) /\ Len(parsed.v) > 0 /\ Truthy(output)
    THEN OrEmpty(Get(output, K_EMAIL_BODY))
  ELSE IF Truthy(Get(parsed, K_EMAIL_BODY)) THEN Get(parsed, K_EMAIL_BODY).v
  ELSE IF Truthy(Get(parsed, K_BODY)) THEN Get(parsed, K_BODY).v
  ELSE emailContent

\* its catch block
ExtractBodyText(m, emailContent) == IF m.found THEN Trim(m.cap) ELSE emailContent

ExtractBodyResult(r, emailContent) ==
  IF ExtractThrows(r) THEN ExtractBodyText(BodyMatch(emailContent), emailContent)
  ELSE ExtractBodyParsed(r.val, Get(First(r.val), K_OUTPUT), emailContent)

extractBodyFromEmail(emailContent) ==
  IF emailContent = <<>> THEN <<>>
  ELSE ExtractBodyResult(JSONParse(emailContent), emailContent)

\* subject and body of the request sendEmailToLead posts
SendRequest(generated_email) ==
  Pair(extractSubjectFromEmail(generated_email), extractBodyFromEmail(generated_email))

(***************************************************************************)
(* The encoders of the modal: what it hands to onEmailUpdate.              *)
(***************************************************************************)
\* the modal's earlier handleSave: JSON.stringify({ subject, body })
SaveContentEarlier(subject, body) ==
  JSONStringify(JObj(<<Member(K_SUBJECT, JStr(subject)), Member(K_BODY, JStr(body))>>))

\* an encoder that joins the two fields as plain text
SaveContentPlain(subject, body) == subject \o <<NL, NL>> \o body

\* handleSave: JSON.stringify({'Subject Line': subject, 'Email Body': body})
SaveContent(subject, body) ==
  JSONStringify(JObj(<<Member(K_SUBJECT_LINE, JStr(subject)),
                       Member(K_EMAIL_BODY, JStr(body))>>))

\* handleRegenerate reads the response with an if / else-if chain; threw
\* stands for the TypeError of a property read of null, which its catch
\* block turns into the error toast
Or(x, dflt) == IF Truthy(x) THEN x.v ELSE dflt

Threw == [threw |-> TRUE, subject |-> <<>>, body |-> <<>>]
Extracted(s, b) == [threw |-> FALSE, subject |-> s, body |-> b]

ExtractFrom(o, ks, kb) == Extracted(Get(o, ks).v, Get(o, kb).v)

RegenerateParsed(result, first, output) ==
  IF ReadsNull(result, first) THEN Threw
  ELSE IF IsArray(result) /\ Len(result.v) > 0 /\ Truthy(output)
    THEN Extracted(Or(Get(output, K_SUBJECT_LINE), <<>>),
                   Or(Get(output, K_EMAIL_BODY), <<>>))
  ELSE IF BothTruthy(result, K_SUBJECT_LINE, K_EMAIL_BODY)
    THEN ExtractFrom(result, K_SUBJECT_LINE, K_EMAIL_BODY)
  ELSE IF BothTruthy(result, K_SUBJECT, K_BODY)
    THEN ExtractFrom(result, K_SUBJECT, K_BODY)
  ELSE IF IsArray(result) /\ Len(result.v) > 0
          /\ BothTruthy(first, K_SUBJECT_LINE, K_EMAIL_BODY)
    THEN ExtractFrom(first, K_SUBJECT_LINE, K_EMAIL_BODY)
  ELSE Extracted(<<>>, <<>>)

RegenerateValue(result, first) == RegenerateParsed(result, first, Get(first, K_OUTPUT))

RegenerateExtract(result) == RegenerateValue(result, First(result))

(***************************************************************************)
(* Payloads the codec is exercised on.                                     *)
(***************************************************************************)
MaxTextLen == 4

TextAlphabet == {"subject", "Email Body", COLON, SP, NL, "a"}

RECURSIVE TextsOfLen(_)
TextsOfLen(n) ==
  IF n = 0 THEN {<<>>}
  ELSE {Append(t, c) : t \in TextsOfLen(n - 1), c \in TextAlphabet}

\* every text of at most MaxTextLen tokens
Texts == UNION {TextsOfLen(n) : n \in 0..MaxTextLen}

\* what a field of an upstream object may hold, and a field that is absent
FieldVals == {JNull, JStr(<<>>), JStr(<<"a">>)}
Absent == JUndefined

\* the objects whose members, in the order of keys, are drawn from FieldVals
RECURSIVE ObjectsOver(_)
ObjectsOver(keys) ==
  IF keys = <<>> THEN {<<>>}
  ELSE {(IF v = Absent THEN <<>> ELSE <<Member(Head(keys), v)>>) \o rest :
          v \in FieldVals \cup {Absent}, rest \in ObjectsOver(Tail(keys))}

DirectMembers == ObjectsOver(<<K_SUBJECT_LINE, K_EMAIL_BODY>>)
FlatObjects == {JObj(m) : m \in ObjectsOver(<<K_SUBJECT_LINE, K_EMAIL_BODY, K_SUBJECT, K_BODY>>)}
OutputVals == {JObj(m) : m \in DirectMembers} \cup {JNull, JStr(<<"a">>)}
WrappedObjects == {JObj(<<Member(K_OUTPUT, o)>> \o m) : o \in OutputVals, m \in DirectMembers}

\* a message field that holds a labelled text, as older responses did
MessageObject ==
  JObj(<<Member(<<"message">>, JStr(<<"subject", COLON, SP, "a", NL, "body", COLON, SP, "b">>))>>)

JsonValues ==
  FlatObjects \cup WrappedObjects
    \cup {JArr(<<o>>) : o \in FlatObjects \cup WrappedObjects}
    \cup {JNull, JStr(<<"a">>), JStr(<<"body", COLON>>), JArr(<<>>), JArr(<<JNull>>),
          JArr(<<JStr(<<"a">>)>>), MessageObject}

\* the five shapes the decode effect names, with a subject s and a body b
ShapeArrayOutput(s, b) ==
  JArr(<<JObj(<<Member(K_OUTPUT, JObj(<<Member(K_SUBJECT_LINE, JStr(s)),
                                         Member(K_EMAIL_BODY, JStr(b))>>))>>)>>)
ShapeDirect(s, b) == JObj(<<Member(K_SUBJECT_LINE, JStr(s)), Member(K_EMAIL_BODY, JStr(b))>>)
ShapeLegacy(s, b) == JObj(<<Member(K_SUBJECT, JStr(s)), Member(K_BODY, JStr(b))>>)
ShapeArrayDirect(s, b) == JArr(<<ShapeDirect(s, b)>>)
ShapeText(ls, lb, s, b) == <<ls, COLON, SP>> \o s \o <<NL, lb, COLON, SP>> \o b

\* an earlier shape together with the members of a later one
ShapeArrayBoth(s, b) ==
  JArr(<<JObj(<<Member(K_OUTPUT, ShapeDirect(s, b)),
                Member(K_SUBJECT_LINE, JStr(<<"z">>)), Member(K_EMAIL_BODY, JStr(<<"z">>))>>)>>)
ShapeDirectBoth(s, b) ==
  JObj(<<Member(K_SUBJECT, JStr(<<"z">>)), Member(K_BODY, JStr(<<"z">>)),
         Member(K_SUBJECT_LINE, JStr(s)), Member(K_EMAIL_BODY, JStr(b))>>)

KnownSubjects == {<<"a">>, <<"b", SP, "a">>}
KnownBodies == {<<"b">>, <<"a", SP, "b">>, <<"a", NL, "b">>}

Input(shape, content, s, b) ==
  [shape |-> shape, content |-> content, subject |-> s, body |-> b]

KnownInputs ==
  UNION {
    {Input(1, JSONStringify(ShapeArrayOutput(s, b)), s, b),
     Input(1, JSONStringify(ShapeArrayBoth(s, b)), s, b),
     Input(2, JSONStringify(ShapeDirect(s, b)), s, b),
     Input(2, JSONStringify(ShapeDirectBoth(s, b)), s, b),
     Input(3, JSONStringify(ShapeLegacy(s, b)), s, b),
     Input(4, JSONStringify(ShapeArrayDirect(s, b)), s, b)}
    \cup {Input(5, ShapeText(ls, lb, s, b), s, b) : ls \in SubjectLabels, lb \in BodyLabels}
    : s \in KnownSubjects, b \in KnownBodies}

\* shape 0: any other payload, with no expectation attached
OtherInputs ==
  {Input(0, c, <<>>, <<>>) : c \in Texts \cup {JSONStringify(v) : v \in JsonValues}}

\* payloads whose fields hold an object or a list in place of a string
FieldValues == {JStr(<<"a">>), JObj(<<>>), JArr(<<>>)}

UntypedObjects ==
  UNION {{JObj(<<Member(K_SUBJECT_LINE, s), Member(K_EMAIL_BODY, b)>>),
          JObj(<<Member(K_SUBJECT, s), Member(K_BODY, b)>>)} :
         s \in FieldValues, b \in FieldValues}

UntypedValues ==
  UntypedObjects
    \cup {JArr(<<o>>) : o \in UntypedObjects}
    \cup {JArr(<<JObj(<<Member(K_OUTPUT, o)>>)>>) : o \in UntypedObjects}

UntypedInputs == {Input(0, JSONStringify(v), <<>>, <<>>) : v \in UntypedValues}

Companies == {<<>>, <<"Acme">>}
PriorStates == {Pair(<<>>, <<>>), Pair(<<"old">>, <<"old">>)}
EditValues == {<<>>, <<"c">>}
RegenerateResults ==
  {ShapeArrayOutput(<<"c">>, <<"d">>), ShapeDirect(<<"c">>, <<"d">>),
   ShapeLegacy(<<"c">>, <<"d">>), ShapeArrayDirect(<<"c">>, <<"d">>),
   JArr(<<JObj(<<Member(K_OUTPUT, JObj(<<Member(K_SUBJECT_LINE, JStr(<<"c">>))>>))>>)>>),
   JObj(<<>>), JNull, JArr(<<JNull>>)}

(***************************************************************************)
(* The rows of the History page.  A row keeps the fields the handlers      *)
(* write: generated_email (<<>> for null), email_sent and sent_at (0 for   *)
(* null).                                                                  *)
(***************************************************************************)
NumLeads == 2
LeadIds == 1..NumLeads
NoId == 0

\* lead.company of the two leads: one with a company and one without
LeadCompany(id) == IF id = 1 THEN <<"Acme">> ELSE <<>>

Row(generated_email, email_sent, sent_at) ==
  [generated_email |-> generated_email, email_sent |-> email_sent, sent_at |-> sent_at]

\* a row as the lead_history table creates it
FreshRow == Row(<<>>, FALSE, 0)

\* the badge of the table and the status filter
Status(lead) ==
  IF lead.email_sent THEN "email_sent"
  ELSE IF lead.generated_email # <<>> THEN "email_generated"
  ELSE "no_email"

\* prev.map(l => l.id === id ? { ...l, generated_email: emailContent } : l)
SetDraft(rows, id, content) ==
  [i \in DOMAIN rows |-> IF i = id THEN [rows[i] EXCEPT !.generated_email = content] ELSE rows[i]]

\* a map without the test of l.id: every lead is marked
MarkSentAll(rows, id, at) ==
  [i \in DOMAIN rows |-> [rows[i] EXCEPT !.email_sent = TRUE, !.sent_at = at]]

\* prev.map(l => l.id === id ? { ...l, email_sent: true, sent_at: ... } : l)
MarkSent(rows, id, at) ==
  [i \in DOMAIN rows |->
     IF i = id THEN [rows[i] EXCEPT !.email_sent = TRUE, !.sent_at = at] ELSE rows[i]]

\* generateEmailForLead after the update: setLeads runs only past
\* "if (updateError) throw updateError"
GenerateSettledOptimistic(rows, id, content, updateError) == SetDraft(rows, id, content)

GenerateSettled(rows, id, content, updateError) ==
  IF updateError THEN rows ELSE SetDraft(rows, id, content)

\* sendEmailToLead after the update
SendSettled(rows, id, at, updateError) ==
  IF updateError THEN rows ELSE MarkSent(rows, id, at)

\* a row whose draft an earlier session stored, in the legacy shape
DraftedRow == Row(JSONStringify(ShapeLegacy(<<"a">>, <<"b">>)), FALSE, 0)

\* the columns of row i: two people take turns
LeadName(i) == IF i % 2 = 1 THEN <<"A", "l", "i", "c", "e">> ELSE <<"B", "o", "b">>
LeadFirm(i) == IF i % 2 = 1 THEN <<"A", "c", "m", "e">> ELSE <<"B", "e", "t", "a">>
LeadTitle(i) == IF i % 2 = 1 THEN <<"C", "T", "O">> ELSE <<"V", "P">>

LeadLocation(i) == IF i % 2 = 1 THEN <<"Lagos">> ELSE <<"Accra">>
LeadEmail(i) == LeadName(i) \o <<"@">> \o LeadFirm(i)

\* a row of lead_history with the columns that say who the lead is
StoredLead(i, row) ==
  [id |-> i, name |-> LeadName(i), title |-> LeadTitle(i), company |-> LeadCompany(i),
   location |-> LeadLocation(i), email |-> LeadEmail(i),
   generated_email |-> row.generated_email,
   email_sent |-> row.email_sent,
   sent_at |-> row.sent_at]

\* the table before the page is opened: a new lead and one with a draft
StoredRows == [i \in LeadIds |-> StoredLead(i, IF i = 1 THEN FreshRow ELSE DraftedRow)]

NoLead == [id |-> NoId, generated_email |-> <<>>]
Selected(id, content) == [id |-> id, generated_email |-> content]

\* a handler that waits: seq numbers the request, stage says what it waits
\* for, content and rows and at are what its closure holds
Task(seq, kind, lead, stage, content, rows, at) ==
  [seq |-> seq, kind |-> kind, lead |-> lead, stage |-> stage,
   content |-> content, rows |-> rows, at |-> at]

NoEvent == [kind |-> "none", lead |-> NoId, ok |-> TRUE]
Event(kind, lead, ok) == [kind |-> kind, lead |-> lead, ok |-> ok]

\* how many requests a run of the page issues, and how many times the
\* user types into the modal
MaxRequests == 2
MaxEdits == 1

\* bodies of 2xx responses of the email-generation webhook
GeneratedEmails == {ShapeArrayOutput(<<"a">>, <<"b">>), JObj(<<>>)}
RegeneratedEmails == {ShapeDirect(<<"c">>, <<"d">>), JObj(<<>>), JNull}

(***************************************************************************)
(* The preview modal on its own: mounted on a payload, its decode effect,  *)
(* edits, save, regenerate, and the parent handing the saved content back. *)
(***************************************************************************)
VARIABLES
  emailContent,    \* the modal's emailContent prop
  company,         \* lead.company
  subject, body,   \* the modal's state
  phase,           \* where the modal is in its run
  expected,        \* the input the run was mounted on
  prior,           \* subject and body before the first decode
  firstDecode,     \* subject and body after the first decode
  updatedContent   \* what the modal last handed to onEmailUpdate

\* the state of the History page and of the modal it mounts
VARIABLES
  leads,                   \* History.leads: the rows in memory, by lead id
  db,                      \* the lead_history rows of the signed-in user
  isLoading,
  generatingEmailFor,      \* a lead id, or NoId for null
  sendingEmailFor,
  showToneDialog,
  leadForEmailGeneration,
  selectedLead,            \* the lead object handed to the modal
  selectedIsRow,           \* selectedLead is the very object held in leads
  showEmailPreview,
  isEditing, isRegenerating, isSending,
  inflight,                \* the handlers that wait for a response or a timer
  issued,                  \* how many requests have been issued so far
  edits,                   \* how many times the user has typed into the modal
  now,                     \* the clock new Date() reads
  lastEvent                \* what the last step settled

modalOnlyVars == <<emailContent, company, phase, expected, prior, firstDecode, updatedContent>>

codecVars ==
  <<emailContent, company, subject, body, phase, expected, prior, firstDecode, updatedContent>>

pageVars ==
  <<leads, db, isLoading, generatingEmailFor, sendingEmailFor, showToneDialog,
    leadForEmailGeneration, selectedLead, selectedIsRow, showEmailPreview,
    isEditing, isRegenerating, isSending, inflight, issued, edits, now, lastEvent>>

\* the state of the Generate Leads page
VARIABLES
  revision,                \* which revision of GenerateLeads the build holds
  description,             \* the criteria the user has typed
  isGenerating,
  generatedLeads           \* the leads the page displays, in response order

\* the controls above the History table
VARIABLES
  searchTerm,
  statusFilter,
  currentPage

generateVars == <<revision, description, isGenerating, generatedLeads>>

viewVars == <<searchTerm, statusFilter, currentPage>>

vars == <<codecVars, pageVars, generateVars, viewVars>>

\* the Generate Leads page as it mounts
GenerateIdle ==
  /\ revision = "list"
  /\ description = <<>>
  /\ isGenerating = FALSE
  /\ generatedLeads = <<>>

\* useState(''), useState('all'), useState(1)
ViewIdle ==
  /\ searchTerm = <<>>
  /\ statusFilter = "all"
  /\ currentPage = 1

\* the page at rest, for runs of the modal on its own
PageIdle ==
  /\ leads = <<>>
  /\ db = [i \in LeadIds |-> FreshRow]
  /\ isLoading = FALSE
  /\ generatingEmailFor = NoId
  /\ sendingEmailFor = NoId
  /\ showToneDialog = FALSE
  /\ leadForEmailGeneration = NoId
  /\ selectedLead = NoLead
  /\ selectedIsRow = FALSE
  /\ showEmailPreview = FALSE
  /\ isEditing = FALSE
  /\ isRegenerating = FALSE
  /\ isSending = FALSE
  /\ inflight = {}
  /\ issued = 0
  /\ edits = 0
  /\ now = 1
  /\ lastEvent = NoEvent
  /\ GenerateIdle
  /\ ViewIdle

CodecInit ==
  /\ expected \in KnownInputs \cup OtherInputs
  /\ emailContent = expected.content
  /\ company \in Companies
  /\ prior \in PriorStates
  /\ subject = prior.subject
  /\ body = prior.body
  /\ phase = "mounted"
  /\ firstDecode = Pair(<<>>, <<>>)
  /\ updatedContent = <<>>
  /\ PageIdle

\* useEffect(..., [emailContent, lead]) on mount
CodecDecode ==
  /\ phase = "mounted"
  /\ \E d \in {Decode(emailContent, company, subject, body)} :
       /\ subject' = d.subject
       /\ body' = d.body
       /\ firstDecode' = d
  /\ phase' = "decoded"
  /\ UNCHANGED <<emailContent, company, expected, prior, updatedContent>>
  /\ UNCHANGED pageVars
  /\ UNCHANGED <<generateVars, viewVars>>

\* onChange of the subject and body inputs
CodecEdit ==
  /\ phase = "decoded"
  /\ \E s \in EditValues, b \in EditValues :
       /\ subject' = s
       /\ body' = b
  /\ phase' = "edited"
  /\ UNCHANGED <<emailContent, company, expected, prior, firstDecode, updatedContent>>
  /\ UNCHANGED pageVars
  /\ UNCHANGED <<generateVars, viewVars>>

CodecSave ==
  /\ phase \in {"decoded", "edited"}
  /\ updatedContent' = SaveContent(subject, body)
  /\ phase' = IF phase = "decoded" THEN "saved" ELSE "savedEdit"
  /\ UNCHANGED <<emailContent, company, subject, body, expected, prior, firstDecode>>
  /\ UNCHANGED pageVars
  /\ UNCHANGED <<generateVars, viewVars>>

\* handleRegenerate with a 2xx response whose body is result
CodecRegenerate ==
  /\ phase = "decoded"
  /\ \E result \in RegenerateResults :
     \E e \in {RegenerateExtract(result)} :
          IF e.threw
            THEN /\ phase' = "regenerateFailed"
                 /\ UNCHANGED <<subject, body, updatedContent>>
            ELSE /\ subject' = e.subject
                 /\ body' = e.body
                 /\ updatedContent' = SaveContent(e.subject, e.body)
                 /\ phase' = "regenerated"
  /\ UNCHANGED <<emailContent, company, expected, prior, firstDecode>>
  /\ UNCHANGED pageVars
  /\ UNCHANGED <<generateVars, viewVars>>

\* the parent stores the saved content and passes it back as emailContent
CodecRedisplay ==
  /\ phase = "saved"
  /\ emailContent' = updatedContent
  /\ \E d \in {Decode(updatedContent, company, subject, body)} :
       /\ subject' = d.subject
       /\ body' = d.body
  /\ phase' = "redecoded"
  /\ UNCHANGED <<company, expected, prior, firstDecode, updatedContent>>
  /\ UNCHANGED pageVars
  /\ UNCHANGED <<generateVars, viewVars>>

CodecNext ==
  \/ CodecDecode
  \/ CodecEdit
  \/ CodecSave
  \/ CodecRegenerate
  \/ CodecRedisplay

CodecSpec == CodecInit /\ [][CodecNext]_vars

\* the decode effect alone, on payloads of every kind
DecodeInit ==
  /\ expected \in KnownInputs \cup OtherInputs \cup UntypedInputs
  /\ emailContent = expected.content
  /\ company \in Companies
  /\ prior \in PriorStates
  /\ subject = prior.subject
  /\ body = prior.body
  /\ phase = "mounted"
  /\ firstDecode = Pair(<<>>, <<>>)
  /\ updatedContent = <<>>
  /\ PageIdle

DecodeSpec == DecodeInit /\ [][CodecDecode]_vars

(***************************************************************************)
(* The History page with the tone dialog and the preview modal.  A handler *)
(* that awaits a response is a task in inflight; the step that settles it  *)
(* is the rest of the handler, with its catch and finally blocks.          *)
(***************************************************************************)
Init ==
  /\ leads = <<>>
  /\ db = StoredRows
  /\ isLoading = TRUE
  /\ generatingEmailFor = NoId
  /\ sendingEmailFor = NoId
  /\ showToneDialog = FALSE
  /\ leadForEmailGeneration = NoId
  /\ selectedLead = NoLead
  /\ selectedIsRow = FALSE
  /\ showEmailPreview = FALSE
  /\ isEditing = FALSE
  /\ isRegenerating = FALSE
  /\ isSending = FALSE
  /\ inflight = {Task(0, "fetch", NoId, "query", <<>>, <<>>, 0)}
  /\ issued = 0
  /\ edits = 0
  /\ now = 1
  /\ lastEvent = NoEvent
  /\ emailContent = <<>>
  /\ company = <<>>
  /\ subject = <<>>
  /\ body = <<>>
  /\ phase = "page"
  /\ expected = Input(0, <<>>, <<>>, <<>>)
  /\ prior = Pair(<<>>, <<>>)
  /\ firstDecode = Pair(<<>>, <<>>)
  /\ updatedContent = <<>>
  /\ GenerateIdle
  /\ ViewIdle

\* if (!description.trim()) { toast; return }
SubmitValidUntrimmed(text) == text # <<>>

SubmitValid(text) == Trim(text) # <<>>

\* sendEmailToLead: if (!lead.generated_email) { toast; return }
SendValid(lead) == lead.generated_email # <<>>

\* handleSend: if (!lead || !subject || !body) return
ModalSendValid(lead, s, b) == lead # NoId /\ s # <<>> /\ b # <<>>

\* the table is rendered, and no dialog lies over it: the dialogs are
\* modal, the page behind an open one takes no clicks
TableShown == ~isLoading /\ leads # <<>> /\ ~showToneDialog /\ ~showEmailPreview

ModalShown == showEmailPreview /\ selectedLead # NoLead

Waiting(kind, stage) == {t \in inflight : t.kind = kind /\ t.stage = stage}

\* the lead object in leads is replaced by a copy
RowReplaced(id) == IF selectedLead.id = id THEN FALSE ELSE selectedIsRow

(* fetchLeadHistory *)
FetchLeadHistory ==
  /\ phase = "page"
  /\ ~showToneDialog /\ ~showEmailPreview
  /\ issued < MaxRequests
  /\ isLoading' = TRUE
  /\ issued' = issued + 1
  /\ inflight' = inflight \cup {Task(issued + 1, "fetch", NoId, "query", <<>>, <<>>, 0)}
  /\ lastEvent' = NoEvent
  /\ UNCHANGED <<leads, db, generatingEmailFor, sendingEmailFor, showToneDialog,
                 leadForEmailGeneration, selectedLead, selectedIsRow, showEmailPreview,
                 isEditing, isRegenerating, isSending, now, edits>>
  /\ UNCHANGED codecVars
  /\ UNCHANGED <<generateVars, viewVars>>

\* the select runs at the backend
FetchReadsRows ==
  /\ \E t \in Waiting("fetch", "query") :
       inflight' = (inflight \ {t}) \cup {[t EXCEPT !.stage = "reply", !.rows = db]}
  /\ lastEvent' = NoEvent
  /\ UNCHANGED <<leads, db, isLoading, generatingEmailFor, sendingEmailFor, showToneDialog,
                 leadForEmailGeneration, selectedLead, selectedIsRow, showEmailPreview,
                 isEditing, isRegenerating, isSending, issued, now, edits>>
  /\ UNCHANGED codecVars
  /\ UNCHANGED <<generateVars, viewVars>>

\* setLeads(data || [])
FetchDelivers ==
  /\ \E t \in Waiting("fetch", "reply") :
       /\ leads' = t.rows
       /\ inflight' = inflight \ {t}
  /\ isLoading' = FALSE
  /\ selectedIsRow' = FALSE
  /\ lastEvent' = Event("fetch", NoId, TRUE)
  /\ UNCHANGED <<db, generatingEmailFor, sendingEmailFor, showToneDialog,
                 leadForEmailGeneration, selectedLead, showEmailPreview,
                 isEditing, isRegenerating, isSending, issued, now, edits>>
  /\ UNCHANGED codecVars
  /\ UNCHANGED <<generateVars, viewVars>>

\* if (error) throw error
FetchFails ==
  /\ \E t \in Waiting("fetch", "query") : inflight' = inflight \ {t}
  /\ isLoading' = FALSE
  /\ lastEvent' = Event("fetch", NoId, FALSE)
  /\ UNCHANGED <<leads, db, generatingEmailFor, sendingEmailFor, showToneDialog,
                 leadForEmailGeneration, selectedLead, selectedIsRow, showEmailPreview,
                 isEditing, isRegenerating, isSending, issued, now, edits>>
  /\ UNCHANGED codecVars
  /\ UNCHANGED <<generateVars, viewVars>>

(* handleGenerateEmailClick: the Generate button of a row without a draft *)
HandleGenerateEmailClick ==
  /\ TableShown
  /\ \E id \in DOMAIN leads :
       /\ leads[id].generated_email = <<>>
       /\ generatingEmailFor # id
       /\ leadForEmailGeneration' = id
  /\ showToneDialog' = TRUE
  /\ lastEvent' = NoEvent
  /\ UNCHANGED <<leads, db, isLoading, generatingEmailFor, sendingEmailFor, selectedLead,
                 selectedIsRow, showEmailPreview, isEditing, isRegenerating, isSending,
                 inflight, issued, now, edits>>
  /\ UNCHANGED codecVars
  /\ UNCHANGED <<generateVars, viewVars>>

\* the dialog's Cancel button
CancelToneDialog ==
  /\ showToneDialog
  /\ generatingEmailFor # leadForEmailGeneration
  /\ showToneDialog' = FALSE
  /\ lastEvent' = NoEvent
  /\ UNCHANGED <<leads, db, isLoading, generatingEmailFor, sendingEmailFor,
                 leadForEmailGeneration, selectedLead, selectedIsRow, showEmailPreview,
                 isEditing, isRegenerating, isSending, inflight, issued, now, edits>>
  /\ UNCHANGED codecVars
  /\ UNCHANGED <<generateVars, viewVars>>

\* handleToneSelected, and generateEmailForLead up to its fetch
HandleToneSelected ==
  /\ showToneDialog
  /\ generatingEmailFor # leadForEmailGeneration
  /\ issued < MaxRequests
  /\ IF leadForEmailGeneration # NoId
       THEN /\ generatingEmailFor' = leadForEmailGeneration
            /\ issued' = issued + 1
            /\ inflight' = inflight \cup
                 {Task(issued + 1, "generate", leadForEmailGeneration, "fetch", <<>>, <<>>, 0)}
       ELSE UNCHANGED <<generatingEmailFor, issued, inflight>>
  /\ showToneDialog' = FALSE
  /\ leadForEmailGeneration' = NoId
  /\ lastEvent' = NoEvent
  /\ UNCHANGED <<leads, db, isLoading, sendingEmailFor, selectedLead, selectedIsRow,
                 showEmailPreview, isEditing, isRegenerating, isSending, now, edits>>
  /\ UNCHANGED codecVars
  /\ UNCHANGED <<generateVars, viewVars>>

\* a 2xx response: emailContent = JSON.stringify(result), then the update
GenerateResponds ==
  /\ \E t \in Waiting("generate", "fetch"), result \in GeneratedEmails :
       inflight' = (inflight \ {t})
                     \cup {[t EXCEPT !.stage = "update", !.content = JSONStringify(result)]}
  /\ lastEvent' = NoEvent
  /\ UNCHANGED <<leads, db, isLoading, generatingEmailFor, sendingEmailFor, showToneDialog,
                 leadForEmailGeneration, selectedLead, selectedIsRow, showEmailPreview,
                 isEditing, isRegenerating, isSending, issued, now, edits>>
  /\ UNCHANGED codecVars
  /\ UNCHANGED <<generateVars, viewVars>>

\* a catch block that posts the request again
GenerateFailsRetrying ==
  /\ issued < MaxRequests
  /\ \E t \in Waiting("generate", "fetch") :
       /\ inflight' = (inflight \ {t}) \cup {[t EXCEPT !.seq = issued + 1]}
       /\ lastEvent' = Event("generate", t.lead, FALSE)
  /\ issued' = issued + 1
  /\ UNCHANGED <<leads, db, isLoading, generatingEmailFor, sendingEmailFor, showToneDialog,
                 leadForEmailGeneration, selectedLead, selectedIsRow, showEmailPreview,
                 isEditing, isRegenerating, isSending, now, edits>>
  /\ UNCHANGED codecVars
  /\ UNCHANGED <<generateVars, viewVars>>

\* fetch rejects or !response.ok: catch, finally
GenerateFails ==
  /\ \E t \in Waiting("generate", "fetch") :
       /\ inflight' = inflight \ {t}
       /\ lastEvent' = Event("generate", t.lead, FALSE)
  /\ generatingEmailFor' = NoId
  /\ UNCHANGED <<leads, db, isLoading, sendingEmailFor, showToneDialog,
                 leadForEmailGeneration, selectedLead, selectedIsRow, showEmailPreview,
                 isEditing, isRegenerating, isSending, issued, now, edits>>
  /\ UNCHANGED codecVars
  /\ UNCHANGED <<generateVars, viewVars>>

\* the update settles: setLeads and the preview timer, or the catch block
GenerateUpdateSettles ==
  /\ \E t \in Waiting("generate", "update"), updateError \in BOOLEAN :
       /\ db' = IF updateError THEN db ELSE SetDraft(db, t.lead, t.content)
       /\ leads' = GenerateSettled(leads, t.lead, t.content, updateError)
       /\ selectedIsRow' = IF updateError THEN selectedIsRow ELSE RowReplaced(t.lead)
       /\ inflight' = (inflight \ {t})
            \cup (IF updateError THEN {} ELSE {[t EXCEPT !.kind = "preview", !.stage = "timer"]})
       /\ lastEvent' = Event("generate", t.lead, ~updateError)
  /\ generatingEmailFor' = NoId
  /\ UNCHANGED <<isLoading, sendingEmailFor, showToneDialog, leadForEmailGeneration,
                 selectedLead, showEmailPreview, isEditing, isRegenerating, isSending,
                 issued, now, edits>>
  /\ UNCHANGED codecVars
  /\ UNCHANGED <<generateVars, viewVars>>

\* setTimeout(..., 1000): setSelectedLead({ ...lead, generated_email }),
\* setShowEmailPreview(true); the modal's effect decodes the new content
PreviewTimerFires ==
  /\ \E t \in Waiting("preview", "timer") :
       /\ selectedLead' = Selected(t.lead, t.content)
       /\ inflight' = inflight \ {t}
       /\ \E d \in {Decode(t.content, LeadCompany(t.lead), subject, body)} :
            /\ subject' = d.subject
            /\ body' = d.body
  /\ selectedIsRow' = FALSE
  /\ showEmailPreview' = TRUE
  /\ lastEvent' = NoEvent
  /\ UNCHANGED <<leads, db, isLoading, generatingEmailFor, sendingEmailFor, showToneDialog,
                 leadForEmailGeneration, isEditing, isRegenerating, isSending, issued, now, edits>>
  /\ UNCHANGED modalOnlyVars
  /\ UNCHANGED <<generateVars, viewVars>>

(* sendEmailToLead up to its fetch: the Send button is rendered for a row   *)
(* with a draft that is not sent, and disabled while the row is sending    *)
SendEmailToLead ==
  /\ TableShown
  /\ issued < MaxRequests
  /\ \E id \in DOMAIN leads :
       /\ leads[id].generated_email # <<>>
       /\ ~leads[id].email_sent
       /\ sendingEmailFor # id
       /\ IF SendValid(leads[id])
            THEN /\ sendingEmailFor' = id
                 /\ inflight' = inflight \cup {Task(issued + 1, "send", id, "fetch", <<>>, <<>>, 0)}
                 /\ issued' = issued + 1
                 /\ lastEvent' = NoEvent
            ELSE /\ lastEvent' = Event("sendRejected", id, FALSE)
                 /\ UNCHANGED <<sendingEmailFor, inflight, issued>>
  /\ UNCHANGED <<leads, db, isLoading, generatingEmailFor, showToneDialog,
                 leadForEmailGeneration, selectedLead, selectedIsRow, showEmailPreview,
                 isEditing, isRegenerating, isSending, now, edits>>
  /\ UNCHANGED codecVars
  /\ UNCHANGED <<generateVars, viewVars>>

\* a 2xx response: the update carries sent_at: new Date().toISOString()
SendResponds ==
  /\ \E t \in Waiting("send", "fetch") :
       inflight' = (inflight \ {t}) \cup {[t EXCEPT !.stage = "update", !.at = now]}
  /\ now' = now + 1
  /\ lastEvent' = NoEvent
  /\ UNCHANGED <<leads, db, isLoading, generatingEmailFor, sendingEmailFor, showToneDialog,
                 leadForEmailGeneration, selectedLead, selectedIsRow, showEmailPreview,
                 isEditing, isRegenerating, isSending, issued, edits>>
  /\ UNCHANGED codecVars
  /\ UNCHANGED <<generateVars, viewVars>>

\* the handler without its finally block
SendFailsWithoutFinally ==
  /\ \E t \in Waiting("send", "fetch") :
       /\ inflight' = inflight \ {t}
       /\ lastEvent' = Event("send", t.lead, FALSE)
  /\ UNCHANGED <<leads, db, isLoading, generatingEmailFor, sendingEmailFor, showToneDialog,
                 leadForEmailGeneration, selectedLead, selectedIsRow, showEmailPreview,
                 isEditing, isRegenerating, isSending, issued, now, edits>>
  /\ UNCHANGED codecVars
  /\ UNCHANGED <<generateVars, viewVars>>

SendFails ==
  /\ \E t \in Waiting("send", "fetch") :
       /\ inflight' = inflight \ {t}
       /\ lastEvent' = Event("send", t.lead, FALSE)
  /\ sendingEmailFor' = NoId
  /\ UNCHANGED <<leads, db, isLoading, generatingEmailFor, showToneDialog,
                 leadForEmailGeneration, selectedLead, selectedIsRow, showEmailPreview,
                 isEditing, isRegenerating, isSending, issued, now, edits>>
  /\ UNCHANGED codecVars
  /\ UNCHANGED <<generateVars, viewVars>>

\* the update settles: setLeads with a second new Date(), or the catch block
SendUpdateSettles ==
  /\ \E t \in Waiting("send", "update"), updateError \in BOOLEAN :
       /\ db' = IF updateError THEN db ELSE MarkSent(db, t.lead, t.at)
       /\ leads' = SendSettled(leads, t.lead, now, updateError)
       /\ now' = IF updateError THEN now ELSE now + 1
       /\ selectedIsRow' = IF updateError THEN selectedIsRow ELSE RowReplaced(t.lead)
       /\ inflight' = inflight \ {t}
       /\ lastEvent' = Event("send", t.lead, ~updateError)
  /\ sendingEmailFor' = NoId
  /\ UNCHANGED <<isLoading, generatingEmailFor, showToneDialog, leadForEmailGeneration,
                 selectedLead, showEmailPreview, isEditing, isRegenerating, isSending, issued, edits>>
  /\ UNCHANGED codecVars
  /\ UNCHANGED <<generateVars, viewVars>>

(* handlePreviewEmail: the Preview button of a row with a draft.  The      *)
(* modal's effect runs when the lead object or its draft has changed.      *)
HandlePreviewEmail ==
  /\ TableShown
  /\ \E id \in DOMAIN leads :
       /\ leads[id].generated_email # <<>>
       /\ selectedLead' = Selected(id, leads[id].generated_email)
       /\ IF selectedLead.id = id /\ selectedIsRow
            THEN UNCHANGED <<subject, body>>
            ELSE \E d \in {Decode(leads[id].generated_email, LeadCompany(id), subject, body)} :
                   /\ subject' = d.subject
                   /\ body' = d.body
  /\ selectedIsRow' = TRUE
  /\ showEmailPreview' = TRUE
  /\ lastEvent' = NoEvent
  /\ UNCHANGED <<leads, db, isLoading, generatingEmailFor, sendingEmailFor, showToneDialog,
                 leadForEmailGeneration, isEditing, isRegenerating, isSending, inflight,
                 issued, now, edits>>
  /\ UNCHANGED modalOnlyVars
  /\ UNCHANGED <<generateVars, viewVars>>

\* the modal's Close button: onOpenChange(false)
ClosePreview ==
  /\ ModalShown
  /\ showEmailPreview' = FALSE
  /\ lastEvent' = NoEvent
  /\ UNCHANGED <<leads, db, isLoading, generatingEmailFor, sendingEmailFor, showToneDialog,
                 leadForEmailGeneration, selectedLead, selectedIsRow, isEditing,
                 isRegenerating, isSending, inflight, issued, now, edits>>
  /\ UNCHANGED codecVars
  /\ UNCHANGED <<generateVars, viewVars>>

\* the Edit button, and the X button that leaves editing
ToggleEditing ==
  /\ ModalShown
  /\ isEditing' = ~isEditing
  /\ lastEvent' = NoEvent
  /\ UNCHANGED <<leads, db, isLoading, generatingEmailFor, sendingEmailFor, showToneDialog,
                 leadForEmailGeneration, selectedLead, selectedIsRow, showEmailPreview,
                 isRegenerating, isSending, inflight, issued, now, edits>>
  /\ UNCHANGED codecVars
  /\ UNCHANGED <<generateVars, viewVars>>

\* onChange of the subject input and of the body textarea
EditDraft ==
  /\ ModalShown
  /\ isEditing
  /\ edits < MaxEdits
  /\ \E v \in EditValues :
       \/ subject' = v /\ UNCHANGED body
       \/ body' = v /\ UNCHANGED subject
  /\ edits' = edits + 1
  /\ lastEvent' = NoEvent
  /\ UNCHANGED <<leads, db, isLoading, generatingEmailFor, sendingEmailFor, showToneDialog,
                 leadForEmailGeneration, selectedLead, selectedIsRow, showEmailPreview,
                 isEditing, isRegenerating, isSending, inflight, issued, now>>
  /\ UNCHANGED modalOnlyVars
  /\ UNCHANGED <<generateVars, viewVars>>

(* handleSave: onEmailUpdate is History.handleEmailUpdate *)
HandleSave ==
  /\ ModalShown
  /\ isEditing
  /\ leads' = SetDraft(leads, selectedLead.id, SaveContent(subject, body))
  /\ selectedIsRow' = FALSE
  /\ isEditing' = FALSE
  /\ lastEvent' = Event("save", selectedLead.id, TRUE)
  /\ UNCHANGED <<db, isLoading, generatingEmailFor, sendingEmailFor, showToneDialog,
                 leadForEmailGeneration, selectedLead, showEmailPreview, isRegenerating,
                 isSending, inflight, issued, now, edits>>
  /\ UNCHANGED codecVars
  /\ UNCHANGED <<generateVars, viewVars>>

(* handleRegenerate up to its fetch *)
HandleRegenerate ==
  /\ ModalShown
  /\ ~isRegenerating
  /\ issued < MaxRequests
  /\ isRegenerating' = TRUE
  /\ issued' = issued + 1
  /\ inflight' = inflight \cup
       {Task(issued + 1, "regenerate", selectedLead.id, "fetch", <<>>, <<>>, 0)}
  /\ lastEvent' = NoEvent
  /\ UNCHANGED <<leads, db, isLoading, generatingEmailFor, sendingEmailFor, showToneDialog,
                 leadForEmailGeneration, selectedLead, selectedIsRow, showEmailPreview,
                 isEditing, isSending, now, edits>>
  /\ UNCHANGED codecVars
  /\ UNCHANGED <<generateVars, viewVars>>

\* a 2xx response: the fields are read, set, and handed to onEmailUpdate;
\* a property read of null throws into the catch block
RegenerateResponds ==
  /\ \E t \in Waiting("regenerate", "fetch"), result \in RegeneratedEmails :
     \E e \in {RegenerateExtract(result)} :
       /\ inflight' = inflight \ {t}
       /\ lastEvent' = Event("regenerate", t.lead, ~e.threw)
       /\ IF e.threw
            THEN UNCHANGED <<subject, body, leads, selectedIsRow, edits>>
            ELSE /\ subject' = e.subject
                 /\ body' = e.body
                 /\ leads' = SetDraft(leads, t.lead, SaveContent(e.subject, e.body))
                 /\ selectedIsRow' = RowReplaced(t.lead)
  /\ isRegenerating' = FALSE
  /\ UNCHANGED <<db, isLoading, generatingEmailFor, sendingEmailFor, showToneDialog,
                 leadForEmailGeneration, selectedLead, showEmailPreview, isEditing,
                 isSending, issued, now, edits>>
  /\ UNCHANGED modalOnlyVars
  /\ UNCHANGED <<generateVars, viewVars>>

RegenerateFails ==
  /\ \E t \in Waiting("regenerate", "fetch") :
       /\ inflight' = inflight \ {t}
       /\ lastEvent' = Event("regenerate", t.lead, FALSE)
  /\ isRegenerating' = FALSE
  /\ UNCHANGED <<leads, db, isLoading, generatingEmailFor, sendingEmailFor, showToneDialog,
                 leadForEmailGeneration, selectedLead, selectedIsRow, showEmailPreview,
                 isEditing, isSending, issued, now, edits>>
  /\ UNCHANGED codecVars
  /\ UNCHANGED <<generateVars, viewVars>>

(* handleSend up to its fetch.  The Send button is disabled while isSending *)
(* or while the subject or the body is empty, and handleSend returns on    *)
(* an empty subject or body: a press with either empty changes nothing.    *)
HandleSend ==
  /\ ModalShown
  /\ ~isSending
  /\ issued < MaxRequests
  /\ IF ModalSendValid(selectedLead.id, subject, body)
       THEN /\ isSending' = TRUE
            /\ issued' = issued + 1
            /\ inflight' = inflight \cup
                 {Task(issued + 1, "modalSend", selectedLead.id, "fetch", <<>>, <<>>, 0)}
            /\ lastEvent' = NoEvent
       ELSE /\ lastEvent' = Event("sendRejected", selectedLead.id, FALSE)
            /\ UNCHANGED <<isSending, issued, inflight>>
  /\ UNCHANGED <<leads, db, isLoading, generatingEmailFor, sendingEmailFor, showToneDialog,
                 leadForEmailGeneration, selectedLead, selectedIsRow, showEmailPreview,
                 isEditing, isRegenerating, now, edits>>
  /\ UNCHANGED codecVars
  /\ UNCHANGED <<generateVars, viewVars>>

\* a 2xx response: onEmailSent is History.handleEmailSent, then onOpenChange(false)
ModalSendResponds ==
  /\ \E t \in Waiting("modalSend", "fetch") :
       /\ leads' = MarkSent(leads, t.lead, now)
       /\ selectedIsRow' = RowReplaced(t.lead)
       /\ inflight' = inflight \ {t}
       /\ lastEvent' = Event("modalSend", t.lead, TRUE)
  /\ now' = now + 1
  /\ showEmailPreview' = FALSE
  /\ isSending' = FALSE
  /\ UNCHANGED <<db, isLoading, generatingEmailFor, sendingEmailFor, showToneDialog,
                 leadForEmailGeneration, selectedLead, isEditing, isRegenerating, issued, edits>>
  /\ UNCHANGED codecVars
  /\ UNCHANGED <<generateVars, viewVars>>

ModalSendFails ==
  /\ \E t \in Waiting("modalSend", "fetch") :
       /\ inflight' = inflight \ {t}
       /\ lastEvent' = Event("modalSend", t.lead, FALSE)
  /\ isSending' = FALSE
  /\ UNCHANGED <<leads, db, isLoading, generatingEmailFor, sendingEmailFor, showToneDialog,
                 leadForEmailGeneration, selectedLead, selectedIsRow, showEmailPreview,
                 isEditing, isRegenerating, issued, now, edits>>
  /\ UNCHANGED codecVars
  /\ UNCHANGED <<generateVars, viewVars>>

Next ==
  \/ FetchLeadHistory
  \/ FetchReadsRows
  \/ FetchDelivers
  \/ FetchFails
  \/ HandleGenerateEmailClick
  \/ CancelToneDialog
  \/ HandleToneSelected
  \/ GenerateResponds
  \/ GenerateFails
  \/ GenerateUpdateSettles
  \/ PreviewTimerFires
  \/ SendEmailToLead
  \/ SendResponds
  \/ SendFails
  \/ SendUpdateSettles
  \/ HandlePreviewEmail
  \/ ClosePreview
  \/ ToggleEditing
  \/ EditDraft
  \/ HandleSave
  \/ HandleRegenerate
  \/ RegenerateResponds
  \/ RegenerateFails
  \/ HandleSend
  \/ ModalSendResponds
  \/ ModalSendFails

Spec == Init /\ [][Next]_vars

(***************************************************************************)
(* The History page when the effect on [user] has run twice (History.tsx   *)
(* 97-101: useAuth hands over a new user object before the first select    *)
(* has returned): two fetchLeadHistory calls are in flight from the start. *)
(* The steps are those of the fetch, of generateEmailForLead with its      *)
(* preview timer, and of the modal's handleSend.                           *)
(***************************************************************************)
RefetchInit ==
  /\ leads = <<>>
  /\ db = StoredRows
  /\ isLoading = TRUE
  /\ generatingEmailFor = NoId
  /\ sendingEmailFor = NoId
  /\ showToneDialog = FALSE
  /\ leadForEmailGeneration = NoId
  /\ selectedLead = NoLead
  /\ selectedIsRow = FALSE
  /\ showEmailPreview = FALSE
  /\ isEditing = FALSE
  /\ isRegenerating = FALSE
  /\ isSending = FALSE
  /\ inflight = {Task(0, "fetch", NoId, "query", <<>>, <<>>, 0),
                 Task(-1, "fetch", NoId, "query", <<>>, <<>>, 0)}
  /\ issued = 0
  /\ edits = 0
  /\ now = 1
  /\ lastEvent = NoEvent
  /\ emailContent = <<>>
  /\ company = <<>>
  /\ subject = <<>>
  /\ body = <<>>
  /\ phase = "page"
  /\ expected = Input(0, <<>>, <<>>, <<>>)
  /\ prior = Pair(<<>>, <<>>)
  /\ firstDecode = Pair(<<>>, <<>>)
  /\ updatedContent = <<>>
  /\ GenerateIdle
  /\ ViewIdle

RefetchNext ==
  \/ FetchReadsRows
  \/ FetchDelivers
  \/ FetchFails
  \/ HandleGenerateEmailClick
  \/ CancelToneDialog
  \/ HandleToneSelected
  \/ GenerateResponds
  \/ GenerateFails
  \/ GenerateUpdateSettles
  \/ PreviewTimerFires
  \/ ClosePreview
  \/ HandleSend
  \/ ModalSendResponds
  \/ ModalSendFails

RefetchSpec == RefetchInit /\ [][RefetchNext]_vars

(***************************************************************************)
(* The Generate Leads page.  part_000 holds two revisions of it: one reads *)
(* the leads from an object { leads, leads_count }, the other takes the    *)
(* response itself as the list and hands handleEmailUpdate and             *)
(* handleEmailSent to its cards.  Each card mounts its own preview modal   *)
(* once its lead has a draft.                                              *)
(***************************************************************************)
Revisions == {"envelope", "list"}

K_LEADS == <<"leads">>
K_LEADS_COUNT == <<"leads_count">>

\* a lead as the lead-generation webhook returns it: GeneratedLead has no
\* sent_at, generated_email and email_sent are absent
GeneratedLead(id) == [id |-> id, generated_email |-> <<>>, email_sent |-> FALSE, sent_at |-> 0]

LeadList == [i \in LeadIds |-> GeneratedLead(i)]

JNum(n) == [k |-> "num", v |-> n]

BareList(list) == JArr(list)
Envelope(list) == JObj(<<Member(K_LEADS, JArr(list)), Member(K_LEADS_COUNT, JNum(Len(list)))>>)

\* bodies of 2xx responses of the lead-generation webhook, by name
ResponseNames == {"list", "envelope", "emptyList", "emptyObject", "null"}

ResponseBody(name) ==
  CASE name = "list" -> BareList(LeadList)
    [] name = "envelope" -> Envelope(LeadList)
    [] name = "emptyList" -> BareList(<<>>)
    [] name = "emptyObject" -> JObj(<<>>)
    [] name = "null" -> JNull

\* what the user types into the criteria field
Descriptions == {<<>>, <<SP>>, <<"CTOs">>}

\* how many requests a run of the Generate Leads page issues
MaxCalls == 3

\* result.leads, result.length: a property read of null throws
ResultThrows(result) == Nullish(result)

\* if (result.leads && Array.isArray(result.leads)) setGeneratedLeads(result.leads)
EnvelopeLeads(result, shown) ==
  IF Truthy(Get(result, K_LEADS)) /\ IsArray(Get(result, K_LEADS))
    THEN Get(result, K_LEADS).v
    ELSE shown

\* if (Array.isArray(result) && result.length > 0) setGeneratedLeads(result)
ListLeads(result, shown) ==
  IF IsArray(result) /\ Len(result.v) > 0 THEN result.v ELSE shown

\* result is saved to lead_history only by the revision that takes a list
SavesLeads(rev, result) == rev = "list" /\ IsArray(result) /\ Len(result.v) > 0

DisplayedLeads(rev, result, shown) ==
  IF ResultThrows(result) THEN shown
  ELSE IF rev = "envelope" THEN EnvelopeLeads(result, shown)
  ELSE ListLeads(result, shown)

\* insert({ id, ..., generated_email: null, email_sent: false }) for the
\* leads whose insert succeeds; an id that is stored already is a conflict
InsertLeads(rows, ids) ==
  [i \in (DOMAIN rows) \cup ids |-> IF i \in DOMAIN rows THEN rows[i] ELSE FreshRow]

\* prev.map(l => l.id === id ? { ...l, generated_email: emailContent } : l)
SetCardDraft(shown, id, content) ==
  [i \in DOMAIN shown |->
     IF shown[i].id = id THEN [shown[i] EXCEPT !.generated_email = content] ELSE shown[i]]

\* prev.map(l => l.id === leadId ? { ...l, email_sent: true } : l)
SetCardSent(shown, id) ==
  [i \in DOMAIN shown |->
     IF shown[i].id = id THEN [shown[i] EXCEPT !.email_sent = TRUE] ELSE shown[i]]

\* onEmailUpdate and onEmailSent are handed to the cards by one revision only
CardUpdated(rev, shown, id, content) ==
  IF rev = "list" THEN SetCardDraft(shown, id, content) ELSE shown

CardSent(rev, shown, id) == IF rev = "list" THEN SetCardSent(shown, id) ELSE shown

\* the subject and body the modal of a card holds: its effect has decoded
\* the draft from the empty state
CardDecode(lead) == Decode(lead.generated_email, LeadCompany(lead.id), <<>>, <<>>)

GenerateInit ==
  /\ revision \in Revisions
  /\ description = <<>>
  /\ isGenerating = FALSE
  /\ generatedLeads = <<>>
  /\ ViewIdle
  /\ leads = <<>>
  /\ db = <<>>
  /\ isLoading = FALSE
  /\ generatingEmailFor = NoId
  /\ sendingEmailFor = NoId
  /\ showToneDialog = FALSE
  /\ leadForEmailGeneration = NoId
  /\ selectedLead = NoLead
  /\ selectedIsRow = FALSE
  /\ showEmailPreview = FALSE
  /\ isEditing = FALSE
  /\ isRegenerating = FALSE
  /\ isSending = FALSE
  /\ inflight = {}
  /\ issued = 0
  /\ edits = 0
  /\ now = 1
  /\ lastEvent = NoEvent
  /\ emailContent = <<>>
  /\ company = <<>>
  /\ subject = <<>>
  /\ body = <<>>
  /\ phase = "generate"
  /\ expected = Input(0, <<>>, <<>>, <<>>)
  /\ prior = Pair(<<>>, <<>>)
  /\ firstDecode = Pair(<<>>, <<>>)
  /\ updatedContent = <<>>

GenerateShown == phase = "generate"

\* what the History page and the shared modal state keep on this page
historyVars ==
  <<leads, isLoading, sendingEmailFor, showToneDialog, leadForEmailGeneration,
    selectedLead, selectedIsRow, showEmailPreview, isEditing, isRegenerating, edits>>

\* onChange of the criteria field, handleExampleClick
SetDescription ==
  /\ GenerateShown
  /\ \E text \in Descriptions :
       /\ text # description
       /\ description' = text
  /\ lastEvent' = NoEvent
  /\ UNCHANGED <<revision, isGenerating, generatedLeads>>
  /\ UNCHANGED <<db, generatingEmailFor, isSending, inflight, issued, now>>
  /\ UNCHANGED <<historyVars, codecVars, viewVars>>

(* handleSubmit up to its fetch; the button is disabled while isGenerating *)
HandleSubmit ==
  /\ GenerateShown
  /\ ~isGenerating
  /\ issued < MaxCalls
  /\ IF SubmitValid(description)
       THEN /\ isGenerating' = TRUE
            /\ issued' = issued + 1
            /\ inflight' = inflight \cup {Task(issued + 1, "leads", NoId, "fetch", <<>>, <<>>, 0)}
            /\ lastEvent' = NoEvent
       ELSE /\ lastEvent' = Event("submitRejected", NoId, FALSE)
            /\ UNCHANGED <<isGenerating, issued, inflight>>
  /\ UNCHANGED <<revision, description, generatedLeads>>
  /\ UNCHANGED <<db, generatingEmailFor, isSending, now>>
  /\ UNCHANGED <<historyVars, codecVars, viewVars>>

\* the webhook answers 2xx; the task's content names the body it sent
LeadsArrive ==
  /\ \E t \in Waiting("leads", "fetch"), name \in ResponseNames :
       inflight' = (inflight \ {t}) \cup {[t EXCEPT !.stage = "reply", !.content = <<name>>]}
  /\ lastEvent' = NoEvent
  /\ UNCHANGED <<db, generatingEmailFor, isSending, issued, now>>
  /\ UNCHANGED <<generateVars, historyVars, codecVars, viewVars>>

\* result = await response.json(): the leads are displayed; the revision
\* that takes a list goes on to save them, the other resets the form and ends
LeadsRespond ==
  /\ \E t \in Waiting("leads", "reply") :
     \E result \in {ResponseBody(t.content[1])} :
       /\ generatedLeads' = DisplayedLeads(revision, result, generatedLeads)
       /\ IF SavesLeads(revision, result)
            THEN /\ inflight' = (inflight \ {t}) \cup {[t EXCEPT !.stage = "insert"]}
                 /\ lastEvent' = NoEvent
                 /\ UNCHANGED <<description, isGenerating>>
            ELSE /\ inflight' = inflight \ {t}
                 /\ lastEvent' = Event("leads", NoId, ~ResultThrows(result))
                 /\ description' = IF ResultThrows(result) THEN description ELSE <<>>
                 /\ isGenerating' = FALSE
  /\ UNCHANGED <<revision, db, generatingEmailFor, isSending, issued, now>>
  /\ UNCHANGED <<historyVars, codecVars, viewVars>>

\* fetch rejects or !response.ok: catch, finally
LeadsFail ==
  /\ \E t \in Waiting("leads", "fetch") : inflight' = inflight \ {t}
  /\ isGenerating' = FALSE
  /\ lastEvent' = Event("leads", NoId, FALSE)
  /\ UNCHANGED <<revision, description, generatedLeads>>
  /\ UNCHANGED <<db, generatingEmailFor, isSending, issued, now>>
  /\ UNCHANGED <<historyVars, codecVars, viewVars>>

\* the inserts have settled, each with or without an error nobody reads;
\* the form is reset
LeadsInsertSettle ==
  /\ \E t \in Waiting("leads", "insert"), ids \in SUBSET LeadIds :
       /\ db' = InsertLeads(db, ids)
       /\ inflight' = inflight \ {t}
  /\ description' = <<>>
  /\ isGenerating' = FALSE
  /\ lastEvent' = Event("leads", NoId, TRUE)
  /\ UNCHANGED <<revision, generatedLeads>>
  /\ UNCHANGED <<generatingEmailFor, isSending, issued, now>>
  /\ UNCHANGED <<historyVars, codecVars, viewVars>>

(* LeadCard.handleToneSelected and generateEmailForLead up to its fetch:   *)
(* the card of a lead without a draft, its button not disabled             *)
GenerateEmailForLead ==
  /\ GenerateShown
  /\ issued < MaxCalls
  /\ \E i \in DOMAIN generatedLeads :
       /\ generatedLeads[i].generated_email = <<>>
       /\ generatingEmailFor # generatedLeads[i].id
       /\ generatingEmailFor' = generatedLeads[i].id
       /\ inflight' = inflight \cup
            {Task(issued + 1, "cardGenerate", generatedLeads[i].id, "fetch", <<>>, <<>>, 0)}
  /\ issued' = issued + 1
  /\ lastEvent' = NoEvent
  /\ UNCHANGED <<db, isSending, now>>
  /\ UNCHANGED <<generateVars, historyVars, codecVars, viewVars>>

\* a 2xx response: emailContent = JSON.stringify(result), then the update
CardGenerateResponds ==
  /\ \E t \in Waiting("cardGenerate", "fetch"), result \in GeneratedEmails :
       inflight' = (inflight \ {t})
                     \cup {[t EXCEPT !.stage = "update", !.content = JSONStringify(result)]}
  /\ lastEvent' = NoEvent
  /\ UNCHANGED <<db, generatingEmailFor, isSending, issued, now>>
  /\ UNCHANGED <<generateVars, historyVars, codecVars, viewVars>>

CardGenerateFails ==
  /\ \E t \in Waiting("cardGenerate", "fetch") :
       /\ inflight' = inflight \ {t}
       /\ lastEvent' = Event("cardGenerate", t.lead, FALSE)
  /\ generatingEmailFor' = NoId
  /\ UNCHANGED <<db, isSending, issued, now>>
  /\ UNCHANGED <<generateVars, historyVars, codecVars, viewVars>>

\* the update settles; its error is not read, setGeneratedLeads and the
\* success toast follow in either case
CardGenerateUpdateSettles ==
  /\ \E t \in Waiting("cardGenerate", "update"), updateError \in BOOLEAN :
       /\ db' = IF updateError THEN db ELSE SetDraft(db, t.lead, t.content)
       /\ generatedLeads' = SetCardDraft(generatedLeads, t.lead, t.content)
       /\ inflight' = inflight \ {t}
       /\ lastEvent' = Event("cardGenerate", t.lead, TRUE)
  /\ generatingEmailFor' = NoId
  /\ UNCHANGED <<revision, description, isGenerating>>
  /\ UNCHANGED <<isSending, issued, now>>
  /\ UNCHANGED <<historyVars, codecVars, viewVars>>

(* handleSave of a card's modal: onEmailUpdate is handleEmailUpdate *)
CardSave ==
  /\ GenerateShown
  /\ \E i \in DOMAIN generatedLeads :
       /\ generatedLeads[i].generated_email # <<>>
       /\ \E d \in {CardDecode(generatedLeads[i])} :
            /\ generatedLeads[i].generated_email # SaveContent(d.subject, d.body)
            /\ generatedLeads' = CardUpdated(revision, generatedLeads, generatedLeads[i].id,
                                             SaveContent(d.subject, d.body))
       /\ lastEvent' = Event("save", generatedLeads[i].id, TRUE)
  /\ UNCHANGED <<revision, description, isGenerating>>
  /\ UNCHANGED <<db, generatingEmailFor, isSending, inflight, issued, now>>
  /\ UNCHANGED <<historyVars, codecVars, viewVars>>

(* handleSend of a card's modal up to its fetch *)
CardSend ==
  /\ GenerateShown
  /\ ~isSending
  /\ issued < MaxCalls
  /\ \E i \in DOMAIN generatedLeads :
       /\ generatedLeads[i].generated_email # <<>>
       /\ \E d \in {CardDecode(generatedLeads[i])} :
            IF ModalSendValid(generatedLeads[i].id, d.subject, d.body)
              THEN /\ isSending' = TRUE
                   /\ issued' = issued + 1
                   /\ inflight' = inflight \cup
                        {Task(issued + 1, "cardSend", generatedLeads[i].id, "fetch", <<>>, <<>>, 0)}
                   /\ lastEvent' = NoEvent
              ELSE /\ lastEvent' = Event("sendRejected", generatedLeads[i].id, FALSE)
                   /\ UNCHANGED <<isSending, issued, inflight>>
  /\ UNCHANGED <<db, generatingEmailFor, now>>
  /\ UNCHANGED <<generateVars, historyVars, codecVars, viewVars>>

\* a 2xx response: onEmailSent is handleEmailSent, then the card closes
\* the modal
CardSendResponds ==
  /\ \E t \in Waiting("cardSend", "fetch") :
       /\ generatedLeads' = CardSent(revision, generatedLeads, t.lead)
       /\ inflight' = inflight \ {t}
       /\ lastEvent' = Event("cardSend", t.lead, TRUE)
  /\ isSending' = FALSE
  /\ UNCHANGED <<revision, description, isGenerating>>
  /\ UNCHANGED <<db, generatingEmailFor, issued, now>>
  /\ UNCHANGED <<historyVars, codecVars, viewVars>>

CardSendFails ==
  /\ \E t \in Waiting("cardSend", "fetch") :
       /\ inflight' = inflight \ {t}
       /\ lastEvent' = Event("cardSend", t.lead, FALSE)
  /\ isSending' = FALSE
  /\ UNCHANGED <<db, generatingEmailFor, issued, now>>
  /\ UNCHANGED <<generateVars, historyVars, codecVars, viewVars>>

GenerateNext ==
  \/ SetDescription
  \/ HandleSubmit
  \/ LeadsArrive
  \/ LeadsRespond
  \/ LeadsFail
  \/ LeadsInsertSettle
  \/ GenerateEmailForLead
  \/ CardGenerateResponds
  \/ CardGenerateFails
  \/ CardGenerateUpdateSettles
  \/ CardSave
  \/ CardSend
  \/ CardSendResponds
  \/ CardSendFails

GenerateLeadsSpec == GenerateInit /\ [][GenerateNext]_vars

\* the awaits of the page settle: a fetch resolves or rejects, the backend
\* answers an insert or an update.  What the user does is left to the user.
GenerateSettles ==
  \/ LeadsArrive
  \/ LeadsRespond
  \/ LeadsFail
  \/ LeadsInsertSettle
  \/ CardGenerateResponds
  \/ CardGenerateFails
  \/ CardGenerateUpdateSettles
  \/ CardSendResponds
  \/ CardSendFails

GenerateLeadsFairSpec == GenerateLeadsSpec /\ WF_vars(GenerateSettles)

\* the site: the user opens the History page or the Generate Leads page
SiteInit == Init \/ GenerateInit

SiteNext == Next \/ GenerateNext

SiteSpec == SiteInit /\ [][SiteNext]_vars

(***************************************************************************)
(* The controls of the History view: search, status filter, pagination.    *)
(* Here a text is a sequence of characters, and leads holds rows with the  *)
(* columns the search reads.                                               *)
(***************************************************************************)
leadsPerPage == 10

\* String.prototype.toLowerCase, on the letters the rows and terms hold
LowerOf(c) ==
  CASE c = "A" -> "a" [] c = "B" -> "b" [] c = "C" -> "c" [] c = "O" -> "o"
    [] c = "P" -> "p" [] c = "T" -> "t" [] c = "V" -> "v" [] OTHER -> c

toLowerCase(text) == [i \in DOMAIN text |-> LowerOf(text[i])]

\* String.prototype.includes
includes(text, part) ==
  \E i \in 0..(Len(text) - Len(part)) : SubSeq(text, i + 1, i + Len(part)) = part

\* the callback of the search filter, as an earlier draft might have had
\* it: without toLowerCase
SearchKeepsExact(lead, term) ==
  \/ includes(lead.name, term)
  \/ includes(lead.company, term)
  \/ includes(lead.title, term)

\* the callback of the search filter
SearchKeeps(lead, term) ==
  \/ includes(toLowerCase(lead.name), toLowerCase(term))
  \/ includes(toLowerCase(lead.company), toLowerCase(term))
  \/ includes(toLowerCase(lead.title), toLowerCase(term))

\* the callback of the status filter without the test of email_sent under
\* 'generated'
StatusKeepsDraft(lead, filter) ==
  CASE filter = "sent" -> lead.email_sent
    [] filter = "generated" -> lead.generated_email # <<>>
    [] filter = "no-email" -> lead.generated_email = <<>>
    [] OTHER -> TRUE

\* the callback of the status filter
StatusKeeps(lead, filter) ==
  CASE filter = "sent" -> lead.email_sent
    [] filter = "generated" -> lead.generated_email # <<>> /\ ~lead.email_sent
    [] filter = "no-email" -> lead.generated_email = <<>>
    [] OTHER -> TRUE

\* filterLeads: what it hands to setFilteredLeads
filterLeads(rows, term, filter) ==
  LET BySearch(lead) == term = <<>> \/ SearchKeeps(lead, term)
      ByStatus(lead) == filter = "all" \/ StatusKeeps(lead, filter)
  IN SelectSeq(SelectSeq(rows, BySearch), ByStatus)

\* the effect on [leads, searchTerm, statusFilter] keeps filteredLeads at
\* the result of filterLeads
filteredLeads == filterLeads(leads, searchTerm, statusFilter)

\* Math.ceil(length / leadsPerPage)
PagesOf(length) == (length + leadsPerPage - 1) \div leadsPerPage

totalPages == PagesOf(Len(filteredLeads))

\* Array.prototype.slice(from, to) for 0 <= from
slice(list, from, to) ==
  IF from >= Len(list) \/ to <= from THEN <<>>
  ELSE SubSeq(list, from + 1, IF to < Len(list) THEN to ELSE Len(list))

\* the page with a slice one short
PageOfShort(list, page) == slice(list, (page - 1) * leadsPerPage, page * leadsPerPage - 1)

PageOf(list, page) == slice(list, (page - 1) * leadsPerPage, page * leadsPerPage)

paginatedLeads == PageOf(filteredLeads, currentPage)

\* a stored row that was sent, and the three states a stored row is in
SentRow == Row(DraftedRow.generated_email, TRUE, 1)

StoredRow(i) == IF i % 3 = 1 THEN FreshRow ELSE IF i % 3 = 2 THEN DraftedRow ELSE SentRow

ViewRow(i) ==
  [id |-> i, name |-> LeadName(i), company |-> LeadFirm(i), title |-> LeadTitle(i),
   generated_email |-> StoredRow(i).generated_email,
   email_sent |-> StoredRow(i).email_sent,
   sent_at |-> StoredRow(i).sent_at]

\* how many rows lead_history holds for the user
CollectionSizes == {0, 2, 3, 12, 25}

StoredCollections == {[i \in 1..n |-> ViewRow(i)] : n \in CollectionSizes}

SearchTerms == {<<>>, <<"a", "c">>, <<"A", "C">>, <<"b">>, <<"c", "t", "o">>, <<"x">>}

StatusFilters == {"all", "sent", "generated", "no-email"}

\* how many rows are sent during a run of the view
MaxSends == 1

ViewInit ==
  /\ leads \in StoredCollections
  /\ ViewIdle
  /\ GenerateIdle
  /\ db = <<>>
  /\ isLoading = FALSE
  /\ generatingEmailFor = NoId
  /\ sendingEmailFor = NoId
  /\ showToneDialog = FALSE
  /\ leadForEmailGeneration = NoId
  /\ selectedLead = NoLead
  /\ selectedIsRow = FALSE
  /\ showEmailPreview = FALSE
  /\ isEditing = FALSE
  /\ isRegenerating = FALSE
  /\ isSending = FALSE
  /\ inflight = {}
  /\ issued = 0
  /\ edits = 0
  /\ now = 2
  /\ lastEvent = NoEvent
  /\ emailContent = <<>>
  /\ company = <<>>
  /\ subject = <<>>
  /\ body = <<>>
  /\ phase = "view"
  /\ expected = Input(0, <<>>, <<>>, <<>>)
  /\ prior = Pair(<<>>, <<>>)
  /\ firstDecode = Pair(<<>>, <<>>)
  /\ updatedContent = <<>>

\* what the view's controls leave alone
tableVars ==
  <<db, isLoading, generatingEmailFor, sendingEmailFor, showToneDialog,
    leadForEmailGeneration, selectedLead, selectedIsRow, showEmailPreview,
    isEditing, isRegenerating, isSending, inflight, edits>>

\* onChange of the search input: setSearchTerm(e.target.value)
SetSearchTerm ==
  /\ \E term \in SearchTerms :
       /\ term # searchTerm
       /\ searchTerm' = term
  /\ lastEvent' = Event("search", NoId, TRUE)
  /\ UNCHANGED <<statusFilter, currentPage, leads, issued, now>>
  /\ UNCHANGED <<tableVars, codecVars, generateVars>>

\* onValueChange of the status select: setStatusFilter
SetStatusFilter ==
  /\ \E filter \in StatusFilters :
       /\ filter # statusFilter
       /\ statusFilter' = filter
  /\ lastEvent' = Event("filter", NoId, TRUE)
  /\ UNCHANGED <<searchTerm, currentPage, leads, issued, now>>
  /\ UNCHANGED <<tableVars, codecVars, generateVars>>

\* the Previous button: rendered when totalPages > 1, disabled on page 1
PreviousPage ==
  /\ totalPages > 1
  /\ currentPage # 1
  /\ currentPage' = Max({currentPage - 1, 1})
  /\ lastEvent' = Event("page", NoId, TRUE)
  /\ UNCHANGED <<searchTerm, statusFilter, leads, issued, now>>
  /\ UNCHANGED <<tableVars, codecVars, generateVars>>

\* the Next button: rendered when totalPages > 1, disabled on the last page
NextPage ==
  /\ totalPages > 1
  /\ currentPage # totalPages
  /\ currentPage' = Min({currentPage + 1, totalPages})
  /\ lastEvent' = Event("page", NoId, TRUE)
  /\ UNCHANGED <<searchTerm, statusFilter, leads, issued, now>>
  /\ UNCHANGED <<tableVars, codecVars, generateVars>>

\* fetchLeadHistory delivers the rows stored by now: setLeads(data || [])
ViewFetchDelivers ==
  /\ \E rows \in StoredCollections :
       /\ rows # leads
       /\ leads' = rows
  /\ lastEvent' = Event("fetch", NoId, TRUE)
  /\ UNCHANGED <<searchTerm, statusFilter, currentPage, issued, now>>
  /\ UNCHANGED <<tableVars, codecVars, generateVars>>

\* sendEmailToLead for a row on the page shown succeeds: setLeads marks it
ViewSendSettles ==
  /\ issued < MaxSends
  /\ \E i \in DOMAIN paginatedLeads :
       /\ paginatedLeads[i].generated_email # <<>>
       /\ ~paginatedLeads[i].email_sent
       /\ leads' = MarkSent(leads, paginatedLeads[i].id, now)
       /\ lastEvent' = Event("send", paginatedLeads[i].id, TRUE)
  /\ issued' = issued + 1
  /\ UNCHANGED <<searchTerm, statusFilter, currentPage, now>>
  /\ UNCHANGED <<tableVars, codecVars, generateVars>>

ViewNext ==
  \/ SetSearchTerm
  \/ SetStatusFilter
  \/ PreviousPage
  \/ NextPage
  \/ ViewFetchDelivers
  \/ ViewSendSettles

ViewSpec == ViewInit /\ [][ViewNext]_vars

(***************************************************************************)
(* Properties of the codec, checked under CodecSpec.                       *)
(***************************************************************************)
\* the decode effect fell through to the text patterns
ReachedText(content) == content # <<>> /\ ~DecodeJson(content).matched

\* the canonical object: exactly "Subject Line" and "Email Body", in that order
Canonical(s, b) ==
  JObj(<<Member(K_SUBJECT_LINE, JStr(s)), Member(K_EMAIL_BODY, JStr(b))>>)

\* C1: a payload in one of the five known shapes decodes to exactly the
\* subject and body it carries; where a payload also carries the members of
\* a later shape, the earlier shape decides.
C1_KnownShapesDecode ==
  (phase = "decoded" /\ expected.shape # 0)
    => (subject = expected.subject /\ body = expected.body)

\* a bare list (the fourth shape) has been decoded to what it carries
C1_Witness ==
  /\ phase = "decoded"
  /\ expected.shape = 4
  /\ subject = expected.subject
  /\ body = expected.body
  /\ subject # body

\* C2: a non-empty payload that reaches the text patterns and holds no
\* subject label decodes to "Regarding <company>" (or the generic phrase)
\* and the whole payload as body, whether or not it holds a body label.
C2_NoSubjectLabelGivesDefault ==
  (phase = "decoded" /\ ReachedText(emailContent) /\ ~SubjectMatch(emailContent).found)
    => (subject = DefaultSubject(company) /\ body = emailContent)

\* C3: starting from an empty subject and body, the decode of a non-empty
\* payload never ends with both empty.
C3_NeverBothEmpty ==
  (phase = "decoded" /\ emailContent # <<>> /\ prior = Pair(<<>>, <<>>))
    => ~(subject = <<>> /\ body = <<>>)

\* C4: what save and regenerate hand to onEmailUpdate parses as the object
\* with exactly the keys "Subject Line" and "Email Body", holding the
\* modal's current subject and body.
C4_EncodeIsCanonical ==
  phase \in {"saved", "savedEdit", "regenerated"}
    => \E r \in {JSONParse(updatedContent)} : r.ok /\ r.val = Canonical(subject, body)

\* a legacy payload was decoded and then saved
C4_Witness ==
  /\ phase = "saved"
  /\ expected.shape = 3
  /\ JSONParse(updatedContent).val = Canonical(expected.subject, expected.body)

C19_TableSendMatchesModal ==
  (phase = "decoded" /\ emailContent # <<>>)
    => SendRequest(emailContent) = Pair(subject, body)

(***************************************************************************)
(* Properties of the History page, checked under Spec.                     *)
(***************************************************************************)
\* no_email < email_generated < email_sent
Rank(status) ==
  CASE status = "no_email" -> 0
    [] status = "email_generated" -> 1
    [] status = "email_sent" -> 2

WebhookKinds == {"generate", "regenerate", "send", "modalSend"}

\* the requests to a webhook that wait for their response
Requests(kinds, id) ==
  {t \in inflight : t.kind \in kinds /\ t.lead = id /\ t.stage = "fetch"}

\* the handlers that wait for the webhook or for the backend
RemoteCalls == {t \in inflight : t.stage # "timer"}

\* C6: in every step of the History page, the status a lead shows stays
\* where it is or moves forward along no_email, email_generated, email_sent.
C6_StatusOnlyForward ==
  [][\A id \in DOMAIN leads :
       leads' # <<>> => Rank(Status(leads'[id])) >= Rank(Status(leads[id]))]_vars

\* C7: the step in which a generate, regenerate or send fails (the webhook
\* or the update of the row) leaves every lead in memory as it was: draft,
\* sent flag and sent timestamp.
C7_FailureLeavesLeads ==
  [][(lastEvent'.kind \in WebhookKinds /\ ~lastEvent'.ok) => leads' = leads]_vars

\* a send has just failed for a lead that shows email_generated
C7_Witness ==
  /\ lastEvent = Event("send", 2, FALSE)
  /\ leads # <<>>
  /\ Status(leads[2]) = "email_generated"
  /\ Status(db[2]) = "email_generated"

\* C8: no send request, from the table or from the modal, is issued for a
\* lead that shows email_sent.
C8_NoSendOnceSent ==
  [][\A t \in inflight' \ inflight :
       (t.kind \in {"send", "modalSend"} /\ t.stage = "fetch")
         => ~leads[t.lead].email_sent]_vars

\* C9: each lead has at most one generate-email request and at most one
\* send-email request in flight.
C9_OneInFlightPerLead ==
  \A id \in LeadIds :
    /\ Cardinality(Requests({"generate", "regenerate"}, id)) <= 1
    /\ Cardinality(Requests({"send", "modalSend"}, id)) <= 1

\* C10: whenever no remote call is in flight, every lead in memory has the
\* draft and the sent flag of its persisted row.
C10_MemoryEqualsPersisted ==
  (RemoteCalls = {} /\ leads # <<>>)
    => \A id \in LeadIds :
         /\ leads[id].generated_email = db[id].generated_email
         /\ leads[id].email_sent = db[id].email_sent

(***************************************************************************)
(* Properties of the lead collections of both pages.                       *)
(***************************************************************************)
\* a row or a displayed lead has its sent flag and its sent timestamp
\* both set or both unset
SentAtomic(lead) == lead.email_sent <=> lead.sent_at # 0

\* C11: in every state, every lead in memory (the History rows, the leads
\* the Generate Leads page displays) and every persisted row has email_sent
\* true if and only if its sent_at is set.
C11_SentFlagIffSentAt ==
  /\ \A i \in DOMAIN leads : SentAtomic(leads[i])
  /\ \A i \in DOMAIN generatedLeads : SentAtomic(generatedLeads[i])
  /\ \A i \in DOMAIN db : SentAtomic(db[i])

\* the leads the Generate Leads page displays under an id
Displayed(id) ==
  {generatedLeads[i] : i \in {j \in DOMAIN generatedLeads : generatedLeads[j].id = id}}

\* the persisted row of id holds this draft
Persisted(id, draft) == id \in DOMAIN db /\ db[id].generated_email = draft

\* C12: when a generate-email action has just reported success for a lead,
\* the lead shows email_generated and its draft in memory is the draft of
\* its persisted row, on the History page and on the Generate Leads page.
C12_GenerateStoresBoth ==
  \A id \in LeadIds :
    /\ lastEvent = Event("generate", id, TRUE)
         => /\ Status(leads[id]) = "email_generated"
            /\ Persisted(id, leads[id].generated_email)
    /\ lastEvent = Event("cardGenerate", id, TRUE)
         => \A lead \in Displayed(id) :
              /\ Status(lead) = "email_generated"
              /\ Persisted(id, lead.generated_email)

(***************************************************************************)
(* Local validation.                                                       *)
(***************************************************************************)
\* the requests this step sends to a webhook
NewRequests(kinds) == {t \in inflight' \ inflight : t.kind \in kinds /\ t.stage = "fetch"}

\* empty, or white space only
Blank(text) == \A i \in 1..Len(text) : text[i] \in WS

\* C13: no step sends a lead-generation request while the criteria are
\* empty or white space only, and the step that rejects them leaves the
\* generating flag and the displayed leads as they were; no step sends a
\* send-email request for a lead without a draft, or from a preview modal
\* whose subject or body is empty.
C13_ValidationStaysLocal ==
  [][/\ Blank(description) => NewRequests({"leads"}) = {}
     /\ lastEvent'.kind = "submitRejected"
          => /\ inflight' = inflight
             /\ isGenerating' = isGenerating
             /\ generatedLeads' = generatedLeads
     /\ \A t \in NewRequests({"send"}) : leads[t.lead].generated_email # <<>>
     /\ \A t \in NewRequests({"modalSend"}) : subject # <<>> /\ body # <<>>
     /\ \A t \in NewRequests({"cardSend"}) :
          \A lead \in Displayed(t.lead) :
            /\ lead.generated_email # <<>>
            /\ CardDecode(lead).subject # <<>>
            /\ CardDecode(lead).body # <<>>]_vars

\* criteria of one blank were submitted: nothing was sent, nothing changed
C13_Witness ==
  /\ lastEvent = Event("submitRejected", NoId, FALSE)
  /\ description = <<SP>>
  /\ inflight = {}
  /\ ~isGenerating
  /\ generatedLeads = <<>>

(***************************************************************************)
(* The response of the lead-generation webhook.                            *)
(***************************************************************************)
\* C14: the step in which handleSubmit reads a 2xx response that is the
\* bare list of leads, or the object { leads, leads_count } around it,
\* ends with exactly these leads displayed.
C14_BothEnvelopesAccepted ==
  [][\A t \in Waiting("leads", "reply") :
       (t \notin inflight' /\ t.content \in {<<"list">>, <<"envelope">>})
         => generatedLeads' = LeadList]_vars

(***************************************************************************)
(* Properties of the History view, checked under ViewSpec.                 *)
(***************************************************************************)
\* part occurs in text at some position, letter by letter, case ignored
ContainsIgnoringCase(text, part) ==
  \E i \in 0..(Len(text) - Len(part)) :
    \A j \in 1..Len(part) : LowerOf(text[i + j]) = LowerOf(part[j])

Matches(lead, term) ==
  \/ ContainsIgnoringCase(lead.name, term)
  \/ ContainsIgnoringCase(lead.company, term)
  \/ ContainsIgnoringCase(lead.title, term)

\* C15: with the status filter at 'all', the filtered leads are exactly the
\* leads whose name, company or title contains the search term, case
\* ignored, in their order; an empty term keeps every lead; of Alice at
\* Acme and Bob at Beta the term "ac" keeps Alice only.
C15_SearchKeepsMatches ==
  statusFilter = "all" =>
    /\ LET Pass(lead) == Matches(lead, searchTerm) IN filteredLeads = SelectSeq(leads, Pass)
    /\ searchTerm = <<>> => filteredLeads = leads
    /\ (Len(leads) = 2 /\ searchTerm = <<"a", "c">>) => filteredLeads = <<leads[1]>>

\* the example: Alice at Acme and Bob at Beta, searched for "ac"
C15_Witness ==
  /\ Len(leads) = 2
  /\ leads[1].name = <<"A", "l", "i", "c", "e">> /\ leads[1].company = <<"A", "c", "m", "e">>
  /\ leads[2].name = <<"B", "o", "b">> /\ leads[2].company = <<"B", "e", "t", "a">>
  /\ searchTerm = <<"a", "c">>
  /\ statusFilter = "all"
  /\ filteredLeads = <<leads[1]>>

\* the derived status a filter value stands for
StatusOfFilter(filter) ==
  CASE filter = "sent" -> "email_sent"
    [] filter = "generated" -> "email_generated"
    [] filter = "no-email" -> "no_email"

\* the filter values under which a lead is listed when nothing is searched
ListedUnder(lead) ==
  {f \in StatusFilters \ {"all"} :
     \E j \in DOMAIN filterLeads(leads, <<>>, f) : filterLeads(leads, <<>>, f)[j] = lead}

C17_CurrentPageValid ==
  /\ 1 <= currentPage
  /\ currentPage <= Max({1, PagesOf(Len(filteredLeads))})
  /\ lastEvent.kind \in {"search", "filter"} => currentPage = 1
  /\ filteredLeads # <<>> => paginatedLeads # <<>>

\* the ids of the rows in a list
IdsOf(list) == {list[i].id : i \in DOMAIN list}

\* positions (p - 1) * 10 + 1 .. min(p * 10, n) of a list of n rows
Positions(p, n) == ((p - 1) * 10 + 1)..(IF p * 10 < n THEN p * 10 ELSE n)

\* C18: page p of the filtered leads, for p from 1 to ceil(n / 10), holds
\* exactly the leads at positions (p - 1) * 10 + 1 .. min(p * 10, n), in
\* order; two different pages share no lead, the pages together hold every
\* filtered lead; the page shown is the page of currentPage; of 25 filtered
\* leads page 3 holds 5.
C18_PagesPartition ==
  \E list \in {filteredLeads} :
    /\ \A p \in 1..PagesOf(Len(list)) :
         /\ Len(PageOf(list, p)) = Cardinality(Positions(p, Len(list)))
         /\ \A j \in DOMAIN PageOf(list, p) : PageOf(list, p)[j] = list[(p - 1) * 10 + j]
         /\ \A q \in 1..PagesOf(Len(list)) :
              q # p => IdsOf(PageOf(list, p)) \cap IdsOf(PageOf(list, q)) = {}
    /\ UNION {IdsOf(PageOf(list, p)) : p \in 1..PagesOf(Len(list))} = IdsOf(list)
    /\ paginatedLeads = PageOf(list, currentPage)
    /\ Len(list) = 25 => Len(PageOf(list, 3)) = 5

\* 25 filtered leads, the third page shown: leads 21 to 25
C18_Witness ==
  /\ Len(filteredLeads) = 25
  /\ currentPage = 3
  /\ Len(paginatedLeads) = 5
  /\ IdsOf(paginatedLeads) = 21..25

(***************************************************************************)
(* Normalisation of the stored draft, checked under Spec.                  *)
(***************************************************************************)
\* the draft parses as an object with exactly the members "Subject Line"
\* and "Email Body", in that order, both strings
CanonicalValue(r) ==
  /\ r.ok
  /\ r.val.k = "obj"
  /\ Len(r.val.v) = 2
  /\ r.val.v[1].key = K_SUBJECT_LINE /\ r.val.v[1].val.k = "str"
  /\ r.val.v[2].key = K_EMAIL_BODY /\ r.val.v[2].val.k = "str"

IsCanonicalDraft(draft) == draft # <<>> /\ CanonicalValue(JSONParse(draft))

\* C20: the step that saves an edit or takes a regeneration leaves the
\* lead's draft in the canonical two-key shape, and a draft that is in the
\* canonical shape stays in it in every later step of the page, a refresh
\* of the lead collection included.
C20_NormalizedStaysCanonical ==
  [][/\ (lastEvent'.kind \in {"save", "regenerate"} /\ lastEvent'.ok)
          => IsCanonicalDraft(leads'[lastEvent'.lead].generated_email)
     /\ \A id \in LeadIds :
          (leads # <<>> /\ IsCanonicalDraft(leads[id].generated_email))
            => IsCanonicalDraft(leads'[id].generated_email)]_vars

\* C22: decoding an empty or absent draft gives an empty subject and an
\* empty body, whatever the modal held before; the table's helpers give
\* the same for the request of a send.
C22_EmptyDraftDecodesEmpty ==
  (phase = "decoded" /\ emailContent = <<>>)
    => /\ subject = <<>> /\ body = <<>>
       /\ firstDecode = Pair(<<>>, <<>>)
       /\ SendRequest(emailContent) = Pair(<<>>, <<>>)

C22_Witness ==
  phase = "decoded" /\ emailContent = <<>> /\ prior = Pair(<<"old">>, <<"old">>)

(***************************************************************************)
(* Reconciliation after a batch.  History registers a listener for the     *)
(* window event leadsGenerated that calls fetchLeadHistory after a second; *)
(* handleSubmit of the Generate Leads page ends with the toast and the     *)
(* form reset, and no handler of the site dispatches that event.           *)
(***************************************************************************)
BatchCompleted == lastEvent = Event("leads", NoId, TRUE)

RefetchTriggered == \E t \in inflight : t.kind = "fetch"

\* C21: after every batch lead generation that completes successfully, a
\* full re-fetch of the lead history is eventually triggered.
C21_RefetchAfterBatch == BatchCompleted ~> RefetchTriggered

(***************************************************************************)
(* Retries.                                                                *)
(***************************************************************************)
AllWebhookKinds == WebhookKinds \cup {"leads", "cardGenerate", "cardSend"}

\* the handlers a click starts, up to their fetch
UserTrigger ==
  \/ HandleToneSelected
  \/ SendEmailToLead
  \/ HandleRegenerate
  \/ HandleSend
  \/ HandleSubmit
  \/ GenerateEmailForLead
  \/ CardSend

\* the step settles a request with a failure
FailureSettled ==
  /\ lastEvent'.kind \in AllWebhookKinds
  /\ ~lastEvent'.ok
  /\ inflight' # inflight

\* C23: no step posts more than one request to a webhook; a step posts one
\* only as the user starts a generate-leads, generate-email, regenerate or
\* send; the step in which a request fails posts none.
C23_NoAutomaticRetry ==
  [][/\ Cardinality(NewRequests(AllWebhookKinds)) <= 1
     /\ NewRequests(AllWebhookKinds) # {} => UserTrigger
     /\ FailureSettled => NewRequests(AllWebhookKinds) = {} /\ issued' = issued]_vars

\* a generate has failed, and nothing waits for the webhook
C23_Witness ==
  /\ lastEvent = Event("generate", 1, FALSE)
  /\ issued = 1
  /\ {t \in inflight : t.kind \in AllWebhookKinds} = {}

(***************************************************************************)
(* Decoding as a total step.                                               *)
(***************************************************************************)
NoLabel(content) == ~SubjectMatch(content).found /\ ~BodyMatch(content).found

\* C24: the decode of any payload (JSON of any value, or text) ends with a
\* subject and a body that are strings, and a payload that matches no JSON
\* shape and holds no label ends with the whole payload as body.
C24_DecodeLeavesStrings ==
  phase = "decoded"
    => /\ DecodedKinds(emailContent) = StringKinds
       /\ (ReachedText(emailContent) /\ NoLabel(emailContent))
            => (subject = DefaultSubject(company) /\ body = emailContent)

(***************************************************************************)
(* The text fallback with a subject label alone.                           *)
(***************************************************************************)
\* where the first subject label with its colon stands, and where its line ends
SubjectLabelAt(content) ==
  Min({i \in 1..(Len(content) - 1) : content[i] \in SubjectLabels /\ content[i + 1] = COLON})

LineEnd(content, from) == FirstOr({k \in from..Len(content) : content[k] = NL}, content)

RestOfSubjectLine(content) ==
  SubSeq(content, SubjectLabelAt(content) + 2,
         LineEnd(content, SubjectLabelAt(content) + 2) - 1)

AfterSubjectLine(content) ==
  SubSeq(content, LineEnd(content, SubjectLabelAt(content) + 2) + 1, Len(content))

\* C25: a payload that reaches the text patterns, where the subject pattern
\* is found and the body pattern is not, decodes to the rest of the line
\* that holds the subject label, trimmed, as subject and to all the text
\* after that line, trimmed, as body.
C25_SubjectOnlyText ==
  (/\ phase = "decoded"
   /\ ReachedText(emailContent)
   /\ SubjectMatch(emailContent).found
   /\ ~BodyMatch(emailContent).found)
    => /\ subject = Trim(RestOfSubjectLine(emailContent))
       /\ body = Trim(AfterSubjectLine(emailContent))

(***************************************************************************)
(* In-flight markers.  A handler runs from its click to its finally block; *)
(* while it runs it is a task in inflight.                                 *)
(***************************************************************************)
Running(kinds) == {t \in inflight : t.kind \in kinds /\ t.stage # "timer"}

RunningFor(kinds, id) == {t \in Running(kinds) : t.lead = id}

\* no marker is set unless the handler that set it is still running
MarkersHeldByHandlers ==
  /\ isGenerating => Running({"leads"}) # {}
  /\ generatingEmailFor # NoId
       => RunningFor({"generate", "cardGenerate"}, generatingEmailFor) # {}
  /\ sendingEmailFor # NoId => RunningFor({"send"}, sendingEmailFor) # {}
  /\ isRegenerating => Running({"regenerate"}) # {}
  /\ isSending => Running({"modalSend", "cardSend"}) # {}

\* the handlers of a kind that end in this step, with success or failure
Ended(kinds) == {t \in Running(kinds) : \A u \in Running(kinds)' : u.seq # t.seq}

\* C26: generate-leads, generate-email, regenerate and send are retryable.
\* The step in which a handler ends clears its marker, and no marker stays
\* set without a running handler, so the control is enabled again; the step
\* in which a generate fails leaves the leads as they were, so that a retry
\* starts from the same lead without a draft.
C26_MarkersCleared ==
  [][/\ MarkersHeldByHandlers'
     /\ Ended({"leads"}) # {} => ~isGenerating'
     /\ \A t \in Ended({"generate", "cardGenerate"}) : generatingEmailFor' # t.lead
     /\ \A t \in Ended({"send"}) : sendingEmailFor' # t.lead
     /\ Ended({"regenerate"}) # {} => ~isRegenerating'
     /\ Ended({"modalSend", "cardSend"}) # {} => ~isSending'
     /\ (lastEvent'.kind = "generate" /\ ~lastEvent'.ok)
          => /\ leads' = leads
             /\ generatingEmailFor' = NoId]_vars

\* a generate has failed: the marker is clear and the lead has no draft
C26_Witness ==
  /\ lastEvent = Event("generate", 1, FALSE)
  /\ generatingEmailFor = NoId
  /\ inflight = {}
  /\ TableShown
  /\ Status(leads[1]) = "no_email"

(***************************************************************************)
(* What a mutation of the in-memory collection leaves alone.               *)
(***************************************************************************)
MutationKinds == {"generate", "save", "regenerate", "send", "modalSend"}

\* the columns that say who a lead is
Identity(lead) ==
  <<lead.id, lead.name, lead.title, lead.company, lead.location, lead.email>>

\* C27: a step that changes the leads in memory for a generate, a saved
\* edit, a regenerate or a send of lead L keeps the number and the order of
\* the leads, leaves every other lead as it was, and leaves L's id, name,
\* title, company, location and email as they were.
C27_OnlyTheLeadReplaced ==
  [][(lastEvent'.kind \in MutationKinds /\ leads' # leads)
       => /\ Len(leads') = Len(leads)
          /\ \A p \in DOMAIN leads :
               /\ Identity(leads'[p]) = Identity(leads[p])
               /\ leads[p].id # lastEvent'.lead => leads'[p] = leads[p]
          /\ \E p \in DOMAIN leads :
               leads[p].id = lastEvent'.lead /\ leads'[p] # leads[p]]_vars

\* lead 2 has been sent while lead 1 has no draft
C27_Witness ==
  /\ lastEvent.kind \in {"send", "modalSend"}
  /\ lastEvent.lead = 2
  /\ lastEvent.ok
  /\ leads # <<>>
  /\ leads[2].email_sent
  /\ leads[1] = StoredLead(1, FreshRow)

(***************************************************************************)
(* Sent leads have a draft.                                                *)
(***************************************************************************)
\* the leads either page holds in memory
LeadsInMemory ==
  {leads[p] : p \in DOMAIN leads} \cup {generatedLeads[p] : p \in DOMAIN generatedLeads}

\* C28: in every state a lead in memory that is marked sent has a draft
\* that is not empty, and no lead passes both the sent and the no-email
\* status filter.
C28_SentHasDraft ==
  \A lead \in LeadsInMemory :
    /\ lead.email_sent => lead.generated_email # <<>>
    /\ ~(StatusKeeps(lead, "sent") /\ StatusKeeps(lead, "no-email"))

(***************************************************************************)
(* Regeneration and the draft it replaces.                                 *)
(***************************************************************************)
\* the subject and body a draft holds: the fields of the object the modal
\* writes, empty or not, and for any other draft what the preview decodes
DraftPair(lead) == Decode(lead.generated_email, lead.company, <<>>, <<>>)

HoldsFields(v) ==
  v.k = "obj" /\ Get(v, K_SUBJECT_LINE).k = "str" /\ Get(v, K_EMAIL_BODY).k = "str"

StoredPairOf(r, lead) ==
  IF r.ok /\ HoldsFields(r.val)
    THEN Pair(Get(r.val, K_SUBJECT_LINE).v, Get(r.val, K_EMAIL_BODY).v)
    ELSE DraftPair(lead)

StoredPair(lead) == StoredPairOf(JSONParse(lead.generated_email), lead)

KeepsText(before, after) == before # <<>> => after # <<>>

\* C29: the step in which a regenerate settles never replaces a subject or
\* a body that was not empty, in the lead's draft in memory, with the
\* empty string.
C29_RegenerateKeepsDraft ==
  [][(lastEvent'.kind = "regenerate" /\ leads # <<>>)
       => \A id \in DOMAIN leads :
            /\ KeepsText(StoredPair(leads[id]).subject, StoredPair(leads'[id]).subject)
            /\ KeepsText(StoredPair(leads[id]).body, StoredPair(leads'[id]).body)]_vars

(***************************************************************************)
(* A fetch that was issued before a generate or a send settled, and        *)
(* delivers after it.                                                      *)
(***************************************************************************)
\* the last step settled a generate or a send of the table with success
JustUpdated == lastEvent.kind \in {"generate", "send"} /\ lastEvent.ok

\* C30: when a fetch of the lead history that was in flight while a
\* generate or a send settled delivers its rows, the lead still shows the
\* draft and the sent flag that the generate or the send gave it.
C30_FetchKeepsNewerState ==
  [][(JustUpdated /\ lastEvent' = Event("fetch", NoId, TRUE))
       => /\ leads'[lastEvent.lead].generated_email = leads[lastEvent.lead].generated_email
          /\ leads'[lastEvent.lead].email_sent = leads[lastEvent.lead].email_sent]_vars

====
